---- MODULE Spec2Model ----
(***************************************************************************)
(* Dynamic QR ticket verification of the FairPass ticketing platform.      *)
(*                                                                         *)
(* Three storage backends implement the same engine:                       *)
(*   FairPassDB      (SQLite)   src/backend/database/db.js                 *)
(*   JSONDatabase    (files)    src/unnamed/part_002                       *)
(*   FairPassMongoDB (MongoDB)  src/backend/database/mongodb.js            *)
(* One of them is instantiated per process; `backend` is chosen in Init.   *)
(* The FairPassTicket contract (src/unnamed/part_001) is the `chain`       *)
(* backend, with a specification of its own (ChainSpec); FraudSpec runs    *)
(* verification over the 5-minute fraud window, and RaceSpec runs two      *)
(* FairPassMongoDB.verifyQRCode calls interleaved at their awaits.         *)
(*                                                                         *)
(* Time is counted in seconds since the Unix epoch shifted to a small      *)
(* origin; the source works in milliseconds (Date) and every window is a   *)
(* whole number of seconds, so each comparison of the source is kept.      *)
(* Dates are stored with toISOString() and read back with new Date(..),    *)
(* which is exact at millisecond resolution; the one lossy case, a NULL    *)
(* column read through new Date(null), is modelled by DateOf.              *)
(* Verification tokens are SHA-256 digests / 32 random characters; a new   *)
(* token is modelled as a value never handed out before (nextToken).       *)
(***************************************************************************)
EXTENDS Integers, Sequences, FiniteSets, TLC

\* ---------------------------------------------------------------- bounds
MaxTickets == 1
MaxTokens == 2
MaxScans == 2
MaxTransfers == 1
MaxTime == 62
MaxFraudScans == 5
MaxFraudTime == 451
MaxEvents == 1
MaxMints == 2
MaxChainTime == 28801
MaxAntiEvents == 1
MaxMongoTickets == 4
MaxMongoTransfers == 1
MaxAntiMints == 2
MaxAntiTime == 3601
MaxSellOutTickets == 5
MaxAttendTime == 97201
MaxRequests == 2
MaxRequestTime == 86402

\* ------------------------------------------------------ program constants
QRWindow == 30
InitialWindow == 60
FraudWindow == 300
FraudThreshold == 3
TransferWindow == 86400
SampleAvailableTickets == 150
SampleMaxTicketsPerUser == 3
SamplePriceETH == 3000          \* 0.003 ETH, in millionths of an ETH
SampleResaleMultiplier == 10    \* 0.1, in percent
InitialPlatformFee == 200       \* part_001:380, basis points
MaxPlatformFee == 500           \* part_001:687
LastTickets == 4                \* availableTickets left once 146 are sold

TickSteps == {30, 31}
FraudTickSteps == {150, 300}
Users == {"alice", "bob"}
Scanners == {"gate1", "gate2"}
NULL == -1
GarbageToken == 0
Locations == {NULL, 100, 101, 500, 501}

VARIABLES
    backend,            \* which database class the process instantiated
    now,                \* wall clock (Date.now()), seconds
    nextToken,          \* next never-used token value
    tickets,            \* FairPassDB / JSONDatabase: table tickets, row id = index
    qr_verifications,   \* table qr_verifications (audit log)
    fraud_alerts,       \* table fraud_alerts
    transfer_requests,  \* table transfer_requests / transfers.json
    tickets_sold,       \* JSONDatabase: events[eventId].tickets_sold
    mongoTickets,       \* FairPassMongoDB: collection tickets, _id = index
    qrverifications,    \* collection qrverifications
    fraudalerts,        \* collection fraudalerts
    availableTickets,   \* collection events: availableTickets of the event
    totalTicketsPurchased, \* collection users: per-user purchase counter
    ret,                \* the last call and what it returned or threw
    issued,             \* per ticket: what the last issuance returned (history)
    validCount,         \* per ticket: number of 'valid' verifications (history)
    superseded,         \* token values that an UPDATE of tickets replaced (history)
    calls,              \* FairPassMongoDB: verifyQRCode calls in progress, per scanner
    chainEvents,        \* FairPassTicket contract: mapping events, id = index
    chainTickets,       \* FairPassTicket contract: mapping tickets, tokenId = index
    tokenOwner,         \* FairPassTicket contract: ERC721 owner of each tokenId
    ticketCountForEvent, \* FairPassTicket contract: address => eventId => count
    transfers,          \* FairPassMongoDB: collection transfers, _id = index
    purchases,          \* FairPassMongoDB: purchaseTickets calls in progress, per user
    antiEvents,         \* anti-scalping contract: mapping events, eventId = index - 1
    antiTickets,        \* anti-scalping contract: mapping tickets, tokenId = index - 1
    antiOwner,          \* anti-scalping contract: ERC721 owner, tokenId = index - 1
    userTicketCount,    \* anti-scalping contract: eventId => user => count
    verifiedUsers,      \* anti-scalping contract: mapping verifiedUsers
    paused,             \* anti-scalping contract: Pausable state
    platformFee         \* anti-scalping contract: platformFee, in basis points

sqlVars == <<tickets, qr_verifications, fraud_alerts, transfer_requests,
             tickets_sold>>
mongoVars == <<mongoTickets, qrverifications, fraudalerts, availableTickets,
               totalTicketsPurchased>>

raceVars == <<calls>>
chainVars == <<chainEvents, chainTickets, tokenOwner>>
transferVars == <<transfers>>
purchaseVars == <<purchases>>
antiVars == <<antiEvents, antiTickets, antiOwner, userTicketCount,
              verifiedUsers, paused, platformFee>>
marketVars == <<ticketCountForEvent, transferVars, purchaseVars, antiVars>>

vars == <<backend, now, nextToken, sqlVars, mongoVars, ret, issued, validCount,
          superseded, raceVars, chainVars, marketVars>>

\* ----------------------------------------------------------------- helpers

\* new Date(column): a NULL column gives new Date(null), the epoch.
DateOf(value) == IF value = NULL THEN 0 ELSE value

\* History kept per ticket about the last successful issuance: what it
\* returned, when, whether the stored token was unexpired when it was called
\* (live), whether the issuance before it was live too (repeat), whether the
\* ticket was unused, and whether a verification has resolved to the ticket
\* since (touched).
NoIssue == [verificationToken |-> NULL, expiresAt |-> NULL, at |-> 0,
            live |-> FALSE, repeat |-> FALSE, unused |-> FALSE,
            touched |-> FALSE]

Issue(token, expiresAt, at, live, repeat, unused) ==
    [verificationToken |-> token, expiresAt |-> expiresAt, at |-> at,
     live |-> live, repeat |-> repeat, unused |-> unused, touched |-> FALSE]

Touch(hist, ticketId) ==
    IF ticketId = 0 \/ hist[ticketId] = NoIssue THEN hist
    ELSE [hist EXCEPT ![ticketId].touched = TRUE]

\* The token values an UPDATE of current_verification_token has overwritten.
Replaced(old, ticket) ==
    IF ticket.current_verification_token = NULL THEN old
    ELSE old \cup {ticket.current_verification_token}

\* args holds the call's remaining arguments where a property needs them.
Ret(op, ticketId, who, token, expiresAt, result) ==
    [op |-> op, ticketId |-> ticketId, who |-> who, token |-> token,
     expiresAt |-> expiresAt, result |-> result, args |-> << >>]

\* A user with no purchaseTickets call in progress.
\* A purchaseTickets call: its position, its quantity, and the
\* availableTickets of the event document its findOne returned.
NoPurchase == [pc |-> "idle", quantity |-> 0, event |-> 0]

\* A scanner with no verifyQRCode call in progress.
NoCall == [pc |-> "idle", token |-> NULL, q |-> 0, result |-> "none"]

ErrUnauthorized == "Unauthorized: Not ticket owner"
ErrTransfer == "Invalid or expired transfer"
ErrForeignKey == "FOREIGN KEY constraint failed"

TicketExists(ticketId) == ticketId \in 1..Len(tickets)

\* SELECT ... WHERE t.current_verification_token = ?   (column is UNIQUE;
\* NULL never equals anything).  0 when no row matches.
FindTicketByToken(verificationToken) ==
    IF \E i \in 1..Len(tickets) :
           tickets[i].current_verification_token = verificationToken
    THEN CHOOSE i \in 1..Len(tickets) :
           /\ tickets[i].current_verification_token = verificationToken
           /\ \A j \in 1..(i - 1) :
                  tickets[j].current_verification_token # verificationToken
    ELSE 0

\* The ownership comparison left out: only the ticket's existence is tested.
NotTicketOwner_ExistenceOnly(ticketId, ownerAddress) == ~TicketExists(ticketId)

\* db.js:104  !ticket || ticket.owner_address !== ownerAddress
NotTicketOwner(ticketId, ownerAddress) ==
    \/ ~TicketExists(ticketId)
    \/ tickets[ticketId].owner_address # ownerAddress

\* The timestamp and the random bytes left out of the digest: the token is a
\* function of the ticket's tokenId alone.
generateVerificationToken_NoNonce(tokenId) == tokenId

\* db.js:93-99  SHA-256 of tokenId, the time and 16 random bytes: a value
\* that was never handed out before.
generateVerificationToken(tokenId) == nextToken

\* The update of is_used moved out of the 'valid' branch.
MarksUsed_ExpiredToo(result) == result \in {"valid", "expired"}

\* db.js:171-181  is_used is set in the branch that returns 'valid'
MarksUsed(result) == result = "valid"

\* db.js:189  result === 'invalid' || result === 'expired'
InvokesFraudCheck(result) == result \in {"invalid", "expired"}

\* The comparison turned around: the stored token is reused only after its
\* expiry.
TokenStillValid_Inverted(t, ticket) ==
    /\ t > DateOf(ticket.token_expires_at)
    /\ ticket.current_verification_token # NULL

\* db.js:112  now < tokenExpiry && ticket.current_verification_token
TokenStillValid(t, ticket) ==
    /\ t < DateOf(ticket.token_expires_at)
    /\ ticket.current_verification_token # NULL

\* The comparison turned around: a token counts as expired before its expiry.
TokenExpired_Inverted(t, ticket) == t < DateOf(ticket.token_expires_at)

\* db.js:168  now > tokenExpiry
TokenExpired(t, ticket) == t > DateOf(ticket.token_expires_at)

\* The is_used test left out of the classification.
Classify_NoUsedCheck(t, ticket) ==
    IF TokenExpired(t, ticket) THEN "expired" ELSE "valid"

\* The expiry test made before the is_used test.
Classify_ExpiredFirst(t, ticket) ==
    IF TokenExpired(t, ticket) THEN "expired"
    ELSE IF ticket.is_used THEN "already_used"
    ELSE "valid"

\* db.js:165-172  classification of a token that resolved to a ticket
Classify(t, ticket) ==
    IF ticket.is_used THEN "already_used"
    ELSE IF TokenExpired(t, ticket) THEN "expired"
    ELSE "valid"

\* SELECT COUNT(*) FROM qr_verifications WHERE verification_token = ?
\*   AND scan_timestamp > datetime('now', '-5 minutes')
RecentScans(log, token, t) ==
    Cardinality({i \in 1..Len(log) :
                    /\ log[i].verification_token = token
                    /\ log[i].scan_timestamp > t - FraudWindow})

\* ------------------------------------------------------------------- Init
Init ==
    /\ backend \in {"sqlite", "json", "mongo"}
    /\ now = 1
    /\ nextToken = 1
    /\ tickets = << >>
    /\ qr_verifications = << >>
    /\ fraud_alerts = << >>
    /\ transfer_requests = << >>
    /\ tickets_sold = 0
    /\ mongoTickets = << >>
    /\ qrverifications = << >>
    /\ fraudalerts = << >>
    /\ availableTickets = SampleAvailableTickets
    /\ totalTicketsPurchased = [u \in Users |-> 0]
    /\ ret = Ret("init", 0, "none", NULL, NULL, "none")
    /\ issued = [i \in 1..MaxTickets |-> NoIssue]
    /\ validCount = [i \in 1..MaxTickets |-> 0]
    /\ superseded = {}
    /\ calls = [s \in Scanners |-> NoCall]
    /\ chainEvents = << >>
    /\ chainTickets = << >>
    /\ tokenOwner = << >>
    /\ ticketCountForEvent = [u \in Users |-> [e \in 1..MaxEvents |-> 0]]
    /\ transfers = << >>
    /\ purchases = [u \in Users |-> NoPurchase]
    /\ antiEvents = << >>
    /\ antiTickets = << >>
    /\ antiOwner = << >>
    /\ userTicketCount = [e \in 0..(MaxAntiEvents - 1) |-> [u \in Users |-> 0]]
    /\ verifiedUsers = [u \in Users |-> FALSE]
    /\ paused = FALSE
    /\ platformFee = InitialPlatformFee

\* ------------------------------------------------------------------ clock
Tick(d) ==
    /\ now + d <= MaxTime
    /\ now' = now + d
    /\ ret' = Ret("tick", 0, "none", NULL, NULL, "none")
    /\ UNCHANGED <<backend, marketVars, raceVars, chainVars, superseded, nextToken, sqlVars, mongoVars, issued, validCount>>

\* ------------------------------------------------- FairPassDB (SQLite)

\* db.js:62-78
createTicket(ownerAddress) ==
    /\ backend = "sqlite"
    /\ Len(tickets) < MaxTickets
    /\ nextToken <= MaxTokens
    /\ tickets' = Append(tickets,
          [owner_address |-> ownerAddress,
           is_used |-> FALSE,
           current_verification_token |->
               generateVerificationToken(Len(tickets) + 1),
           token_expires_at |-> now + InitialWindow])
    /\ nextToken' = nextToken + 1
    /\ ret' = Ret("createTicket", Len(tickets) + 1, ownerAddress, NULL, NULL, "ok")
    /\ UNCHANGED <<backend, marketVars, raceVars, chainVars, superseded, now, qr_verifications, fraud_alerts,
                   transfer_requests, tickets_sold, mongoVars, issued, validCount>>

\* db.js:102-145
generateSecureQRData(ticketId, ownerAddress) ==
    /\ backend = "sqlite"
    /\ IF NotTicketOwner(ticketId, ownerAddress)
       THEN /\ ret' = Ret("generateSecureQRData", ticketId, ownerAddress,
                          NULL, NULL, ErrUnauthorized)
            /\ UNCHANGED <<tickets, nextToken, issued, superseded>>
       ELSE LET ticket == tickets[ticketId]
                tokenExpiry == DateOf(ticket.token_expires_at)
            IN IF TokenStillValid(now, ticket)
               THEN /\ ret' = Ret("generateSecureQRData", ticketId, ownerAddress,
                                  ticket.current_verification_token,
                                  tokenExpiry, "ok")
                    /\ issued' = [issued EXCEPT ![ticketId] =
                          Issue(ticket.current_verification_token, tokenExpiry,
                                now, now < tokenExpiry, @.live, ~ticket.is_used)]
                    /\ UNCHANGED <<tickets, nextToken, superseded>>
               ELSE LET newToken == generateVerificationToken(ticketId)
                    IN /\ nextToken <= MaxTokens
                       /\ tickets' = [tickets EXCEPT ![ticketId] =
                             [@ EXCEPT !.current_verification_token = newToken,
                                       !.token_expires_at = now + QRWindow]]
                       /\ nextToken' = nextToken + 1
                       /\ ret' = Ret("generateSecureQRData", ticketId,
                                     ownerAddress, newToken, now + QRWindow, "ok")
                       /\ issued' = [issued EXCEPT ![ticketId] =
                             Issue(newToken, now + QRWindow, now,
                                   now < tokenExpiry, @.live, ~ticket.is_used)]
                       /\ superseded' = Replaced(superseded, ticket)
    /\ UNCHANGED <<backend, marketVars, raceVars, chainVars, now, qr_verifications,
                   fraud_alerts, transfer_requests, tickets_sold, mongoVars,
                   validCount>>

\* db.js:201-218  (no row is written without a ticket id)
logVerification(log, ticketId, token, result, t) ==
    IF ticketId = 0 THEN log
    ELSE Append(log, [ticket_id |-> ticketId, verification_token |-> token,
                      scan_result |-> result, scan_timestamp |-> t])

\* The alert raised once per ticket only: no further alert while one exists.
checkForFraud_OncePerWindow(alerts, log, ticketId, token, t) ==
    IF ticketId = 0 THEN alerts
    ELSE IF /\ RecentScans(log, token, t) > FraudThreshold
            /\ \A i \in 1..Len(alerts) : alerts[i].ticket_id # ticketId
         THEN Append(alerts, [ticket_id |-> ticketId,
                              alert_type |-> "suspicious_activity"])
         ELSE alerts

\* db.js:220-237  evaluated on the log as it is after logVerification
checkForFraud(alerts, log, ticketId, token, t) ==
    IF ticketId = 0 THEN alerts
    ELSE IF RecentScans(log, token, t) > FraudThreshold
         THEN Append(alerts, [ticket_id |-> ticketId,
                              alert_type |-> "suspicious_activity"])
         ELSE alerts

\* db.js:148-199
verifyQRCode(verificationToken) ==
    /\ backend = "sqlite"
    /\ LET ticketId == FindTicketByToken(verificationToken)
           result == IF ticketId = 0 THEN "invalid"
                     ELSE Classify(now, tickets[ticketId])
           log == logVerification(qr_verifications, ticketId,
                                  verificationToken, result, now)
       IN /\ tickets' = IF MarksUsed(result)
                        THEN [tickets EXCEPT ![ticketId].is_used = TRUE]
                        ELSE tickets
          /\ qr_verifications' = log
          /\ fraud_alerts' = IF InvokesFraudCheck(result)
                             THEN checkForFraud(fraud_alerts, log, ticketId,
                                                verificationToken, now)
                             ELSE fraud_alerts
          /\ ret' = Ret("verifyQRCode", ticketId, "scanner", verificationToken,
                        NULL, result)
          /\ issued' = Touch(issued, ticketId)
          /\ validCount' = IF result = "valid"
                           THEN [validCount EXCEPT ![ticketId] = @ + 1]
                           ELSE validCount
    /\ UNCHANGED <<backend, marketVars, raceVars, chainVars, superseded, now, nextToken, transfer_requests, tickets_sold,
                   mongoVars>>

\* db.js:240-252  (ticket_id is a FOREIGN KEY into tickets)
createTransferRequest(ticketId, fromAddress, toAddress) ==
    /\ backend = "sqlite"
    /\ IF TicketExists(ticketId)
       THEN /\ transfer_requests' = Append(transfer_requests,
                  [ticket_id |-> ticketId, from_address |-> fromAddress,
                   to_address |-> toAddress, status |-> "pending",
                   expires_at |-> now + TransferWindow])
            /\ ret' = Ret("createTransferRequest", ticketId, fromAddress,
                          NULL, now + TransferWindow, "ok")
       ELSE /\ ret' = Ret("createTransferRequest", ticketId, fromAddress,
                          NULL, NULL, ErrForeignKey)
            /\ UNCHANGED transfer_requests
    /\ UNCHANGED <<backend, marketVars, raceVars, chainVars, superseded, now, nextToken, tickets, qr_verifications,
                   fraud_alerts, tickets_sold, mongoVars, issued, validCount>>

\* db.js:266-302
confirmTransfer(transferId, recipientAddress) ==
    /\ backend = "sqlite"
    /\ IF \/ transferId > Len(transfer_requests)
          \/ transfer_requests[transferId].to_address # recipientAddress
          \/ transfer_requests[transferId].status # "pending"
       THEN /\ ret' = Ret("confirmTransfer", 0, recipientAddress, NULL, NULL,
                          ErrTransfer)
            /\ UNCHANGED <<tickets, transfer_requests, issued, superseded>>
       ELSE LET transfer == transfer_requests[transferId]
            IN /\ tickets' = [tickets EXCEPT ![transfer.ticket_id] =
                     [@ EXCEPT !.owner_address = recipientAddress,
                               !.current_verification_token = NULL,
                               !.token_expires_at = NULL]]
               /\ transfer_requests' =
                     [transfer_requests EXCEPT ![transferId].status = "confirmed"]
               /\ issued' = [issued EXCEPT ![transfer.ticket_id] = NoIssue]
               /\ superseded' = Replaced(superseded, tickets[transfer.ticket_id])
               /\ ret' = Ret("confirmTransfer", transfer.ticket_id,
                             recipientAddress, NULL, NULL, "ok")
    /\ UNCHANGED <<backend, marketVars, raceVars, chainVars, now, nextToken, qr_verifications, fraud_alerts,
                   tickets_sold, mongoVars, validCount>>

\* db.js:81-90  getUserTickets(walletAddress) has a ticket with this id
OwnsUnusedTicket(ticketId, walletAddress) ==
    /\ TicketExists(ticketId)
    /\ tickets[ticketId].owner_address = walletAddress
    /\ ~tickets[ticketId].is_used

\* part_003:249-278  POST /api/transfers/create of the SQLite server, with
\* all required fields present: the ownership test, then
\* db.createTransferRequest
SQL_postTransfersCreate(ticketId, fromAddress, toAddress) ==
    IF OwnsUnusedTicket(ticketId, fromAddress)
    THEN createTransferRequest(ticketId, fromAddress, toAddress)
    ELSE /\ backend = "sqlite"
         /\ ret' = Ret("POST /api/transfers/create", ticketId, fromAddress,
                       NULL, NULL, "Not authorized to transfer this ticket")
         /\ UNCHANGED <<backend, marketVars, raceVars, chainVars, superseded,
                        now, nextToken, sqlVars, mongoVars, issued, validCount>>

\* The clock of the transfer requests.
RequestTick(d) ==
    /\ now + d <= MaxRequestTime
    /\ now' = now + d
    /\ ret' = Ret("tick", 0, "none", NULL, NULL, "none")
    /\ UNCHANGED <<backend, marketVars, raceVars, chainVars, superseded,
                   nextToken, sqlVars, mongoVars, issued, validCount>>

\* --------------------------------------------- JSONDatabase (part_002)

\* part_002:138-168  (updateEventSoldCount for the sample event included)
JSON_createTicket(ownerAddress) ==
    /\ backend = "json"
    /\ Len(tickets) < MaxTickets
    /\ nextToken <= MaxTokens
    /\ tickets' = Append(tickets,
          [owner_address |-> ownerAddress,
           is_used |-> FALSE,
           current_verification_token |-> nextToken,
           token_expires_at |-> now + InitialWindow])
    /\ tickets_sold' = tickets_sold + 1
    /\ nextToken' = nextToken + 1
    /\ ret' = Ret("createTicket", Len(tickets) + 1, ownerAddress, NULL, NULL, "ok")
    /\ UNCHANGED <<backend, marketVars, raceVars, chainVars, superseded, now, qr_verifications, fraud_alerts,
                   transfer_requests, mongoVars, issued, validCount>>

\* part_002:205-247
JSON_generateSecureQRData(ticketId, ownerAddress) ==
    /\ backend = "json"
    /\ IF ~TicketExists(ticketId) \/ tickets[ticketId].owner_address # ownerAddress
       THEN /\ ret' = Ret("generateSecureQRData", ticketId, ownerAddress,
                          NULL, NULL, ErrUnauthorized)
            /\ UNCHANGED <<tickets, nextToken, issued, superseded>>
       ELSE LET ticket == tickets[ticketId]
                tokenExpiry == DateOf(ticket.token_expires_at)
            IN IF now < tokenExpiry /\ ticket.current_verification_token # NULL
               THEN /\ ret' = Ret("generateSecureQRData", ticketId, ownerAddress,
                                  ticket.current_verification_token,
                                  tokenExpiry, "ok")
                    /\ issued' = [issued EXCEPT ![ticketId] =
                          Issue(ticket.current_verification_token, tokenExpiry,
                                now, now < tokenExpiry, @.live, ~ticket.is_used)]
                    /\ UNCHANGED <<tickets, nextToken, superseded>>
               ELSE /\ nextToken <= MaxTokens
                    /\ tickets' = [tickets EXCEPT ![ticketId] =
                          [@ EXCEPT !.current_verification_token = nextToken,
                                    !.token_expires_at = now + QRWindow]]
                    /\ nextToken' = nextToken + 1
                    /\ ret' = Ret("generateSecureQRData", ticketId, ownerAddress,
                                  nextToken, now + QRWindow, "ok")
                    /\ issued' = [issued EXCEPT ![ticketId] =
                          Issue(nextToken, now + QRWindow, now,
                                now < tokenExpiry, @.live, ~ticket.is_used)]
                    /\ superseded' = Replaced(superseded, ticket)
    /\ UNCHANGED <<backend, marketVars, raceVars, chainVars, now, qr_verifications,
                   fraud_alerts, transfer_requests, tickets_sold, mongoVars,
                   validCount>>

\* part_002:307-322
logVerificationAttempt(log, ticketId, token, result, t) ==
    Append(log, [ticket_id |-> ticketId, verification_token |-> token,
                 scan_result |-> result, scan_timestamp |-> t])

\* part_002:339-353
JSON_logFraudAttempt(alerts, ticketId, alertType) ==
    Append(alerts, [ticket_id |-> ticketId, alert_type |-> alertType])

\* The alert raised as soon as the count reaches the threshold.
JSON_checkForFraud_AtThreshold(alerts, log, ticketId, token, t) ==
    IF RecentScans(log, token, t) >= FraudThreshold
    THEN JSON_logFraudAttempt(alerts, ticketId, "suspicious_activity")
    ELSE alerts

\* part_002:324-337
JSON_checkForFraud(alerts, log, ticketId, token, t) ==
    IF RecentScans(log, token, t) > FraudThreshold
    THEN JSON_logFraudAttempt(alerts, ticketId, "suspicious_activity")
    ELSE alerts

\* part_002:250-305
JSON_verifyQRCode(verificationToken) ==
    /\ backend = "json"
    /\ LET ticketId == FindTicketByToken(verificationToken)
           result == IF ticketId = 0 THEN "invalid"
                     ELSE IF tickets[ticketId].is_used THEN "already_used"
                     ELSE IF now > DateOf(tickets[ticketId].token_expires_at)
                          THEN "expired"
                     ELSE "valid"
           log == logVerificationAttempt(qr_verifications,
                      IF ticketId = 0 THEN NULL ELSE ticketId,
                      verificationToken, result, now)
       IN /\ tickets' = IF result = "valid"
                        THEN [tickets EXCEPT ![ticketId].is_used = TRUE]
                        ELSE tickets
          /\ qr_verifications' = log
          /\ fraud_alerts' =
                IF result = "expired"
                THEN JSON_logFraudAttempt(fraud_alerts, ticketId, "expired_token")
                ELSE IF ticketId = 0
                THEN JSON_checkForFraud(fraud_alerts, log, NULL,
                                        verificationToken, now)
                ELSE fraud_alerts
          /\ ret' = Ret("verifyQRCode", ticketId, "scanner", verificationToken,
                        NULL, result)
          /\ issued' = Touch(issued, ticketId)
          /\ validCount' = IF result = "valid"
                           THEN [validCount EXCEPT ![ticketId] = @ + 1]
                           ELSE validCount
    /\ UNCHANGED <<backend, marketVars, raceVars, chainVars, superseded, now, nextToken, transfer_requests, tickets_sold,
                   mongoVars>>

\* part_002:356-378  (no check of the ticket or of the addresses)
JSON_createTransferRequest(ticketId, fromAddress, toAddress) ==
    /\ backend = "json"
    /\ Len(transfer_requests) < MaxTransfers
    /\ transfer_requests' = Append(transfer_requests,
          [ticket_id |-> ticketId, from_address |-> fromAddress,
           to_address |-> toAddress, status |-> "pending",
           expires_at |-> now + TransferWindow])
    /\ ret' = Ret("createTransferRequest", ticketId, fromAddress,
                  NULL, now + TransferWindow, "ok")
    /\ UNCHANGED <<backend, marketVars, raceVars, chainVars, superseded, now, nextToken, tickets, qr_verifications,
                   fraud_alerts, tickets_sold, mongoVars, issued, validCount>>

\* part_002:403-432
JSON_confirmTransfer(transferId, recipientAddress) ==
    /\ backend = "json"
    /\ transferId \in 1..MaxTransfers
    /\ IF \/ transferId > Len(transfer_requests)
          \/ transfer_requests[transferId].to_address # recipientAddress
          \/ transfer_requests[transferId].status # "pending"
       THEN /\ ret' = Ret("confirmTransfer", 0, recipientAddress, NULL, NULL,
                          ErrTransfer)
            /\ UNCHANGED <<tickets, transfer_requests, issued>>
       ELSE LET transfer == transfer_requests[transferId]
            IN /\ IF TicketExists(transfer.ticket_id)
                  THEN /\ tickets' = [tickets EXCEPT ![transfer.ticket_id] =
                             [@ EXCEPT !.owner_address = recipientAddress,
                                       !.current_verification_token = NULL,
                                       !.token_expires_at = NULL]]
                       /\ issued' = [issued EXCEPT ![transfer.ticket_id] = NoIssue]
                  ELSE UNCHANGED <<tickets, issued>>
               /\ transfer_requests' =
                     [transfer_requests EXCEPT ![transferId].status = "confirmed"]
               /\ ret' = Ret("confirmTransfer", transfer.ticket_id,
                             recipientAddress, NULL, NULL, "ok")
    /\ UNCHANGED <<backend, marketVars, raceVars, chainVars, superseded, now, nextToken, qr_verifications, fraud_alerts,
                   tickets_sold, mongoVars, validCount>>

\* ----------------------------------------- FairPassMongoDB (mongodb.js)

ErrNotOwner == "QR generation failed: Ticket not found or you do not own this ticket"
ErrUsed == "QR generation failed: Ticket has already been used"
ErrAvailability == "Purchase failed: Not enough tickets available"
ErrLimit == "Purchase failed: Purchase limit exceeded"

MongoTicketExists(ticketId) == ticketId \in 1..Len(mongoTickets)

\* mongodb.js:553-557  countDocuments({ownerAddress, eventId, isTransferred: false})
UserTicketsForEvent(walletAddress) ==
    Cardinality({i \in 1..Len(mongoTickets) :
                    /\ mongoTickets[i].ownerAddress = walletAddress
                    /\ ~mongoTickets[i].isTransferred})

NewTickets(walletAddress, quantity) ==
    [i \in 1..quantity |->
        [ownerAddress |-> walletAddress, isUsed |-> FALSE, isTransferred |-> FALSE]]

\* mongodb.js:532-639  (users are identified by their wallet address)
purchaseTickets(userId, quantity) ==
    /\ backend = "mongo"
    /\ IF availableTickets < quantity
       THEN /\ ret' = Ret("purchaseTickets", 0, userId, NULL, NULL, ErrAvailability)
            /\ UNCHANGED <<mongoTickets, availableTickets, totalTicketsPurchased>>
       ELSE IF UserTicketsForEvent(userId) + quantity > SampleMaxTicketsPerUser
       THEN /\ ret' = Ret("purchaseTickets", 0, userId, NULL, NULL, ErrLimit)
            /\ UNCHANGED <<mongoTickets, availableTickets, totalTicketsPurchased>>
       ELSE /\ mongoTickets' = mongoTickets \o NewTickets(userId, quantity)
            /\ availableTickets' = availableTickets - quantity
            /\ totalTicketsPurchased' =
                  [totalTicketsPurchased EXCEPT ![userId] = @ + quantity]
            /\ ret' = Ret("purchaseTickets", Len(mongoTickets) + 1, userId,
                          NULL, NULL, "ok")
    /\ UNCHANGED <<backend, marketVars, raceVars, chainVars, superseded, now, nextToken, sqlVars, qrverifications,
                   fraudalerts, issued, validCount>>

\* ---------------------- FairPassMongoDB.purchaseTickets, await by await
\* purchaseTickets is an async function without a transaction: the calls of
\* two buyers interleave between its database operations.  One action is one
\* database operation together with the synchronous code that follows it up
\* to the next await, throw or return.

\* mongodb.js:538-541  the call is made and findOne on events runs
purchaseTickets_findEvent(userId, quantity) ==
    /\ backend = "mongo"
    /\ purchases[userId].pc = "idle"
    /\ purchases' = [purchases EXCEPT ![userId] =
          [pc |-> "findUser", quantity |-> quantity, event |-> availableTickets]]
    /\ UNCHANGED <<backend, ticketCountForEvent, transferVars, antiVars,
                   raceVars, chainVars, superseded, now, nextToken, sqlVars,
                   mongoVars, ret, issued, validCount>>

\* mongodb.js:541, 547  event.availableTickets of the document read by findOne
AvailableFor(p) == p.event

\* mongodb.js:542-550  findOne on users, then the availability test on the
\* event document read before
purchaseTickets_findUser(userId) ==
    /\ backend = "mongo"
    /\ purchases[userId].pc = "findUser"
    /\ IF AvailableFor(purchases[userId]) < purchases[userId].quantity
       THEN /\ purchases' = [purchases EXCEPT ![userId] = NoPurchase]
            /\ ret' = Ret("purchaseTickets", 0, userId, NULL, NULL, ErrAvailability)
       ELSE /\ purchases' = [purchases EXCEPT ![userId].pc = "countDocuments"]
            /\ UNCHANGED ret
    /\ UNCHANGED <<backend, ticketCountForEvent, transferVars, antiVars,
                   raceVars, chainVars, superseded, now, nextToken, sqlVars,
                   mongoVars, issued, validCount>>

\* mongodb.js:553-561  countDocuments on tickets, then the limit test
purchaseTickets_countDocuments(userId) ==
    /\ backend = "mongo"
    /\ purchases[userId].pc = "countDocuments"
    /\ IF UserTicketsForEvent(userId) + purchases[userId].quantity
            > SampleMaxTicketsPerUser
       THEN /\ purchases' = [purchases EXCEPT ![userId] = NoPurchase]
            /\ ret' = Ret("purchaseTickets", 0, userId, NULL, NULL, ErrLimit)
       ELSE /\ purchases' = [purchases EXCEPT ![userId].pc = "insertMany"]
            /\ UNCHANGED ret
    /\ UNCHANGED <<backend, ticketCountForEvent, transferVars, antiVars,
                   raceVars, chainVars, superseded, now, nextToken, sqlVars,
                   mongoVars, issued, validCount>>

\* mongodb.js:563-591  insertMany(tickets)
purchaseTickets_insertMany(userId) ==
    /\ backend = "mongo"
    /\ purchases[userId].pc = "insertMany"
    /\ mongoTickets' = mongoTickets \o NewTickets(userId, purchases[userId].quantity)
    /\ purchases' = [purchases EXCEPT ![userId].pc = "updateEvent"]
    /\ UNCHANGED <<backend, ticketCountForEvent, transferVars, antiVars,
                   raceVars, chainVars, superseded, now, nextToken, sqlVars,
                   qrverifications, fraudalerts, availableTickets,
                   totalTicketsPurchased, ret, issued, validCount>>

\* mongodb.js:593-597  updateOne on events, $inc availableTickets: -quantity
purchaseTickets_updateEvent(userId) ==
    /\ backend = "mongo"
    /\ purchases[userId].pc = "updateEvent"
    /\ availableTickets' = availableTickets - purchases[userId].quantity
    /\ purchases' = [purchases EXCEPT ![userId].pc = "updateUser"]
    /\ UNCHANGED <<backend, ticketCountForEvent, transferVars, antiVars,
                   raceVars, chainVars, superseded, now, nextToken, sqlVars,
                   mongoTickets, qrverifications, fraudalerts,
                   totalTicketsPurchased, ret, issued, validCount>>

\* mongodb.js:599-635  updateOne on users, then return
purchaseTickets_updateUser(userId) ==
    /\ backend = "mongo"
    /\ purchases[userId].pc = "updateUser"
    /\ totalTicketsPurchased' =
          [totalTicketsPurchased EXCEPT ![userId] = @ + purchases[userId].quantity]
    /\ purchases' = [purchases EXCEPT ![userId] = NoPurchase]
    /\ ret' = Ret("purchaseTickets",
                  Len(mongoTickets) - purchases[userId].quantity + 1,
                  userId, NULL, NULL, "ok")
    /\ UNCHANGED <<backend, ticketCountForEvent, transferVars, antiVars,
                   raceVars, chainVars, superseded, now, nextToken, sqlVars,
                   mongoTickets, qrverifications, fraudalerts, availableTickets,
                   issued, validCount>>

\* ------------------------------- FairPassMongoDB transfers (mongodb.js)
ErrTicketNotFound == "Ticket not found"
ErrUserNotFound == "User not found"
ErrNotYours == "You do not own this ticket"
ErrTicketUsed == "Ticket has already been used"
ErrResaleLimit == "Resale price exceeds limit"
ErrTransferNotFound == "Transfer not found"
ErrNotPending == "Transfer is no longer pending"
ErrObjectId == "db.ObjectId is not a constructor"

\* new ObjectId(undefined) is a newly generated id: findOne matches no user.
Undefined == "undefined"

TransferPrices == {3300, 3301}

\* mongodb.js:578  ticket.originalPrice is event.priceETH at the purchase
OriginalPrice(ticketId) == SamplePriceETH

\* mongodb.js:670  ticket.originalPrice * (1 + event.resaleMultiplier)
MaxPrice(ticketId) ==
    (OriginalPrice(ticketId) * (100 + SampleResaleMultiplier)) \div 100

\* mongodb.js:655-674  the errors createTransferRequest throws, in order
CreateTransferError(ticketId, fromUserId, transferType, price) ==
    IF ~MongoTicketExists(ticketId) THEN ErrTicketNotFound
    ELSE IF fromUserId \notin Users THEN ErrUserNotFound
    ELSE IF mongoTickets[ticketId].ownerAddress # fromUserId THEN ErrNotYours
    ELSE IF mongoTickets[ticketId].isUsed THEN ErrTicketUsed
    ELSE IF transferType = "sale" /\ price > MaxPrice(ticketId)
         THEN ErrResaleLimit
    ELSE "ok"

\* mongodb.js:676-694  the document inserted into transfers
NewTransfer(ticketId, fromUserId, toEmail, transferType, price) ==
    [ticketId |-> ticketId, fromAddress |-> fromUserId, toEmail |-> toEmail,
     transferType |-> transferType,
     price |-> IF transferType = "sale" THEN price ELSE 0,
     status |-> "pending"]

\* mongodb.js:645-714
Mongo_createTransferRequest(ticketId, fromUserId, toEmail, transferType, price) ==
    /\ backend = "mongo"
    /\ LET reason == CreateTransferError(ticketId, fromUserId, transferType,
                                         price)
       IN /\ reason = "ok" => Len(transfers) < MaxMongoTransfers
          /\ transfers' =
                IF reason = "ok"
                THEN Append(transfers, NewTransfer(ticketId, fromUserId,
                                                   toEmail, transferType, price))
                ELSE transfers
          /\ ret' = [Ret("createTransferRequest", ticketId, fromUserId, NULL,
                         NULL, reason)
                     EXCEPT !.args = <<toEmail, transferType, price>>]
    /\ UNCHANGED <<backend, ticketCountForEvent, purchaseVars, antiVars, now,
                   nextToken, sqlVars, mongoVars, issued, validCount,
                   superseded, raceVars, chainVars>>

\* The handler passing the authenticated user's id field.
ReqUserId_Id(user) == user

\* server.js:333  req.user.userId: authenticateToken sets req.user to the
\* object verifyToken returns (mongodb.js:421-428), which has the fields id,
\* email, walletAddress, firstName, lastName and verificationLevel.
ReqUserId(user) == Undefined

\* server.js:302-385  POST /api/transfers/create for an authenticated user
\* with a well-formed body: the transferData it builds has isResale and no
\* transferType; after createTransferRequest the handler evaluates
\* new db.ObjectId(ticketId), which FairPassMongoDB does not define.
postTransfersCreate(user, ticketId, recipientEmail, price, isResale) ==
    /\ backend = "mongo"
    /\ LET transferType == Undefined
           reason == CreateTransferError(ticketId, ReqUserId(user),
                                         transferType, price)
       IN /\ reason = "ok" => Len(transfers) < MaxMongoTransfers
          /\ transfers' =
                IF reason = "ok"
                THEN Append(transfers,
                        NewTransfer(ticketId, ReqUserId(user), recipientEmail,
                                    transferType, price))
                ELSE transfers
          /\ ret' = [Ret("POST /api/transfers/create", ticketId, user, NULL,
                         NULL, IF reason = "ok" THEN ErrObjectId ELSE reason)
                     EXCEPT !.args = <<recipientEmail, isResale, price>>]
    /\ UNCHANGED <<backend, ticketCountForEvent, purchaseVars, antiVars, now,
                   nextToken, sqlVars, mongoVars, issued, validCount,
                   superseded, raceVars, chainVars>>

\* mongodb.js:752-761  the errors approveTransfer throws, in order
ApproveTransferError(transferId, toUserId) ==
    IF transferId \notin 1..Len(transfers) THEN ErrTransferNotFound
    ELSE IF toUserId \notin Users THEN ErrUserNotFound
    ELSE IF transfers[transferId].status # "pending" THEN ErrNotPending
    ELSE IF ~MongoTicketExists(transfers[transferId].ticketId)
         THEN ErrTicketNotFound
    ELSE "ok"

\* mongodb.js:746-833
approveTransfer(transferId, toUserId) ==
    /\ backend = "mongo"
    /\ LET reason == ApproveTransferError(transferId, toUserId)
       IN /\ IF reason = "ok"
             THEN LET ticketId == transfers[transferId].ticketId
                  IN /\ mongoTickets' = [mongoTickets EXCEPT
                           ![ticketId].ownerAddress = toUserId,
                           ![ticketId].isTransferred = TRUE]
                     /\ transfers' = [transfers EXCEPT
                           ![transferId].status = "completed"]
                     /\ totalTicketsPurchased' =
                           [totalTicketsPurchased EXCEPT ![toUserId] = @ + 1]
             ELSE UNCHANGED <<mongoTickets, transfers, totalTicketsPurchased>>
          /\ ret' = [Ret("approveTransfer",
                         IF reason = "ok" THEN transfers[transferId].ticketId
                         ELSE 0,
                         toUserId, NULL, NULL, reason)
                     EXCEPT !.args = <<transferId>>]
    /\ UNCHANGED <<backend, ticketCountForEvent, purchaseVars, antiVars, now,
                   nextToken, sqlVars, qrverifications, fraudalerts,
                   availableTickets, issued, validCount, superseded, raceVars,
                   chainVars>>

\* server.js:455-537  POST /api/transfers/:transferId/:action.  After the
\* test of the action the handler evaluates new db.ObjectId(transferId), the
\* argument of its first query: FairPassMongoDB has no ObjectId property, so
\* a TypeError is thrown before any database operation.  The catch block
\* reads `action`, a const of the try block, which is a ReferenceError there:
\* no response body is produced by the handler.
postTransfersAction(user, transferId, action) ==
    /\ backend = "mongo"
    /\ ret' = [Ret("POST /api/transfers/:transferId/" \o action, 0, user, NULL,
                   NULL,
                   IF action \notin {"accept", "reject"}
                   THEN "Action must be accept or reject"
                   ELSE "ReferenceError: action is not defined")
               EXCEPT !.args = <<transferId>>]
    /\ UNCHANGED <<backend, marketVars, now, nextToken, sqlVars, mongoVars,
                   issued, validCount, superseded, raceVars, chainVars>>

\* The tier boundaries made exclusive: a user exactly 100 m or 500 m away
\* falls into the next tier.
ExpirySeconds_ExclusiveBoundary(venueMode, userLocation) ==
    IF venueMode /\ userLocation # NULL
    THEN IF userLocation < 100 THEN 180
         ELSE IF userLocation < 500 THEN 60
         ELSE 30
    ELSE 30

\* mongodb.js:862-884  userLocation is given as its distance to the venue in
\* metres (calculateDistance, kilometres in the source), NULL when absent.
ExpirySeconds(venueMode, userLocation) ==
    IF venueMode /\ userLocation # NULL
    THEN IF userLocation <= 100 THEN 180
         ELSE IF userLocation <= 500 THEN 60
         ELSE 30
    ELSE 30

QrType(venueMode, userLocation) ==
    IF venueMode /\ userLocation # NULL
    THEN IF userLocation <= 100 THEN "venue_entry"
         ELSE IF userLocation <= 500 THEN "venue_proximity"
         ELSE "standard"
    ELSE "standard"

\* mongodb.js:839-928
generateSecureQR(ticketId, ownerAddress, venueMode, userLocation) ==
    /\ backend = "mongo"
    /\ IF ~MongoTicketExists(ticketId)
          \/ mongoTickets[ticketId].ownerAddress # ownerAddress
       THEN /\ ret' = Ret("generateSecureQR", ticketId, ownerAddress,
                          NULL, NULL, ErrNotOwner)
            /\ UNCHANGED <<qrverifications, nextToken, issued>>
       ELSE IF mongoTickets[ticketId].isUsed
       THEN /\ ret' = Ret("generateSecureQR", ticketId, ownerAddress,
                          NULL, NULL, ErrUsed)
            /\ UNCHANGED <<qrverifications, nextToken, issued>>
       ELSE LET expiresAt == now + ExpirySeconds(venueMode, userLocation)
            IN /\ nextToken <= MaxTokens
               /\ qrverifications' = Append(qrverifications,
                     [verificationToken |-> nextToken,
                      ticketId |-> ticketId,
                      ownerAddress |-> ownerAddress,
                      expiresAt |-> expiresAt,
                      isUsed |-> FALSE,
                      qrType |-> QrType(venueMode, userLocation)])
               /\ nextToken' = nextToken + 1
               /\ ret' = [Ret("generateSecureQR", ticketId, ownerAddress,
                              nextToken, expiresAt, "ok")
                             EXCEPT !.args = <<venueMode, userLocation>>]
               /\ issued' = [issued EXCEPT ![ticketId] =
                     Issue(nextToken, expiresAt, now, FALSE, FALSE, TRUE)]
    /\ UNCHANGED <<backend, marketVars, raceVars, chainVars, superseded, now, sqlVars, mongoTickets, fraudalerts,
                   availableTickets, totalTicketsPurchased, validCount>>

\* mongodb.js:954-958  findOne({verificationToken, expiresAt: {$gt: now},
\* isUsed: false}); 0 when no document matches.
FindQrRecord(verificationToken, t) ==
    LET hits == {i \in 1..Len(qrverifications) :
                    /\ qrverifications[i].verificationToken = verificationToken
                    /\ qrverifications[i].expiresAt > t
                    /\ ~qrverifications[i].isUsed}
    IN IF hits = {} THEN 0 ELSE CHOOSE i \in hits : \A j \in hits : i <= j

\* mongodb.js:1036-1055
logFraudAttempt(alerts, verificationToken, reason, t) ==
    Append(alerts, [verificationToken |-> verificationToken, reason |-> reason])

\* mongodb.js:947-1034
Mongo_verifyQRCode(verificationToken) ==
    /\ backend = "mongo"
    /\ LET q == FindQrRecord(verificationToken, now)
       IN IF q = 0
          THEN /\ Len(fraudalerts) < MaxScans
               /\ fraudalerts' = logFraudAttempt(fraudalerts, verificationToken,
                                     "invalid_or_expired_token", now)
               /\ ret' = Ret("verifyQRCode", 0, "scanner", verificationToken,
                             NULL, "invalid")
               /\ UNCHANGED <<qrverifications, mongoTickets, issued, validCount>>
          ELSE LET ticketId == qrverifications[q].ticketId
               IN IF ~MongoTicketExists(ticketId)
                  THEN /\ ret' = Ret("verifyQRCode", 0, "scanner",
                                     verificationToken, NULL, "error")
                       /\ UNCHANGED <<qrverifications, mongoTickets,
                                      fraudalerts, issued, validCount>>
                  ELSE /\ qrverifications' =
                             [qrverifications EXCEPT ![q].isUsed = TRUE]
                       /\ mongoTickets' =
                             [mongoTickets EXCEPT ![ticketId].isUsed = TRUE]
                       /\ ret' = Ret("verifyQRCode", ticketId, "scanner",
                                     verificationToken, NULL, "valid")
                       /\ issued' = Touch(issued, ticketId)
                       /\ validCount' = [validCount EXCEPT ![ticketId] = @ + 1]
                       /\ UNCHANGED fraudalerts
    /\ UNCHANGED <<backend, marketVars, raceVars, chainVars, superseded, now, nextToken, sqlVars, availableTickets,
                   totalTicketsPurchased>>

\* mongodb.js:62  TTL index on expiresAt (expireAfterSeconds: 0): the server
\* removes documents whose expiresAt has passed, at a time of its choosing.
RemoveExpired(coll, t) == SelectSeq(coll, LAMBDA r : ~(r.expiresAt < t))

ttlMonitor ==
    /\ backend = "mongo"
    /\ RemoveExpired(qrverifications, now) # qrverifications
    /\ qrverifications' = RemoveExpired(qrverifications, now)
    /\ ret' = Ret("ttlMonitor", 0, "none", NULL, NULL, "none")
    /\ UNCHANGED <<backend, marketVars, raceVars, chainVars, superseded, now, nextToken, sqlVars, mongoTickets, fraudalerts,
                   availableTickets, totalTicketsPurchased, issued, validCount>>

\* ------------------------- FairPassMongoDB.verifyQRCode, await by await
\* verifyQRCode is an async function: each await hands control back to the
\* event loop, so the calls of two scanners interleave between the database
\* operations.  One action is one database operation together with the
\* synchronous code that follows it up to the next await or return.

\* mongodb.js:947-970  the call is made and findOne on qrverifications runs
verifyQRCode_findQrRecord(s, verificationToken) ==
    /\ backend = "mongo"
    /\ calls[s].pc \in {"idle", "done"}
    /\ LET q == FindQrRecord(verificationToken, now)
       IN calls' = [calls EXCEPT ![s] =
              [pc |-> IF q = 0 THEN "logFraudAttempt" ELSE "findTicket",
               token |-> verificationToken, q |-> q, result |-> "none"]]
    /\ UNCHANGED <<backend, marketVars, now, nextToken, sqlVars, mongoVars, ret, issued,
                   validCount, superseded, chainVars>>

\* mongodb.js:960-970, 1036-1055  insertOne on fraudalerts, then return
verifyQRCode_logFraudAttempt(s) ==
    /\ backend = "mongo"
    /\ calls[s].pc = "logFraudAttempt"
    /\ Len(fraudalerts) < MaxScans
    /\ fraudalerts' = logFraudAttempt(fraudalerts, calls[s].token,
                          "invalid_or_expired_token", now)
    /\ calls' = [calls EXCEPT ![s].pc = "done", ![s].result = "invalid"]
    /\ ret' = Ret("verifyQRCode", 0, s, calls[s].token, NULL, "invalid")
    /\ UNCHANGED <<backend, marketVars, now, nextToken, sqlVars, mongoTickets,
                   qrverifications, availableTickets, totalTicketsPurchased,
                   issued, validCount, superseded, chainVars>>

\* mongodb.js:972-984  findOne on tickets
verifyQRCode_findTicket(s) ==
    /\ backend = "mongo"
    /\ calls[s].pc = "findTicket"
    /\ LET ticketId == qrverifications[calls[s].q].ticketId
       IN IF ~MongoTicketExists(ticketId)
          THEN /\ calls' = [calls EXCEPT ![s].pc = "done", ![s].result = "error"]
               /\ ret' = Ret("verifyQRCode", 0, s, calls[s].token, NULL, "error")
          ELSE /\ calls' = [calls EXCEPT ![s].pc = "markQrUsed"]
               /\ UNCHANGED ret
    /\ UNCHANGED <<backend, marketVars, now, nextToken, sqlVars, mongoVars, issued,
                   validCount, superseded, chainVars>>

\* mongodb.js:986-996  updateOne({_id: qrRecord._id}, {$set: {isUsed: true}})
verifyQRCode_markQrUsed(s) ==
    /\ backend = "mongo"
    /\ calls[s].pc = "markQrUsed"
    /\ qrverifications' = [qrverifications EXCEPT ![calls[s].q].isUsed = TRUE]
    /\ calls' = [calls EXCEPT ![s].pc = "markTicketUsed"]
    /\ UNCHANGED <<backend, marketVars, now, nextToken, sqlVars, mongoTickets, fraudalerts,
                   availableTickets, totalTicketsPurchased, ret, issued,
                   validCount, superseded, chainVars>>

\* mongodb.js:998-1024  updateOne on tickets, then return 'valid'
verifyQRCode_markTicketUsed(s) ==
    /\ backend = "mongo"
    /\ calls[s].pc = "markTicketUsed"
    /\ LET ticketId == qrverifications[calls[s].q].ticketId
       IN /\ mongoTickets' = [mongoTickets EXCEPT ![ticketId].isUsed = TRUE]
          /\ ret' = Ret("verifyQRCode", ticketId, s, calls[s].token, NULL, "valid")
          /\ issued' = Touch(issued, ticketId)
          /\ validCount' = [validCount EXCEPT ![ticketId] = @ + 1]
    /\ calls' = [calls EXCEPT ![s].pc = "done", ![s].result = "valid"]
    /\ UNCHANGED <<backend, marketVars, now, nextToken, sqlVars, qrverifications,
                   fraudalerts, availableTickets, totalTicketsPurchased,
                   superseded, chainVars>>

\* ------------------------------ FairPassTicket contract (part_001:10-324)
\* block.timestamp is `now`; an account is a user or the contract itself.

ContractAddress == "FairPassTicket"
ZeroAddress == "0x0"
EventDates == {3601, 7201}
Prices == {1, 2}
ResalePrices == {1, 2, 3}

RevertReentrant == "ReentrancyGuard: reentrant call"
RevertNoEvent == "Event does not exist"
RevertInactive == "Event is not active"
RevertQuantity == "Quantity must be 1-10"
RevertSoldOut == "Not enough tickets available"
RevertPayment == "Insufficient payment"
RevertOccurred == "Event has already occurred"
RevertReceiver == "ERC721: transfer to non ERC721Receiver implementer"
RevertEventDate == "Event date must be in the future"
RevertResalePrice == "Max resale price must be >= ticket price"
RevertNoTicket == "Ticket does not exist"
RevertNotOwner == "Not ticket owner"
RevertAlreadyUsed == "Ticket already used"
RevertWindow == "Ticket can only be used during event window"
RevertNotAuthorized == "Not authorized"
RevertUsedTransfer == "Cannot transfer used ticket"
RevertPriceCap == "Price exceeds maximum resale price"
RevertUnderflow == "Panic(0x11)"

OneHour == 3600
SixHours == 21600
OneDay == 86400

\* A block is mined one hour after the previous one.
Mine ==
    /\ backend = "chain"
    /\ now + 3600 <= MaxChainTime
    /\ now' = now + 3600
    /\ ret' = Ret("mine", 0, "none", NULL, NULL, "none")
    /\ UNCHANGED <<backend, marketVars, nextToken, sqlVars, mongoVars, issued, validCount,
                   superseded, raceVars, chainVars>>

\* part_001:70-106
createEvent(sender, eventDate, ticketPrice, maxTickets, maxResalePrice) ==
    /\ backend = "chain"
    /\ Len(chainEvents) < MaxEvents
    /\ LET reason == IF ~(eventDate > now) THEN RevertEventDate
                     ELSE IF ~(maxResalePrice >= ticketPrice)
                          THEN RevertResalePrice
                     ELSE "ok"
       IN /\ chainEvents' =
                IF reason = "ok"
                THEN Append(chainEvents,
                        [eventDate |-> eventDate, ticketPrice |-> ticketPrice,
                         maxTickets |-> maxTickets, ticketsSold |-> 0,
                         maxResalePrice |-> maxResalePrice,
                         organizer |-> sender, isActive |-> TRUE])
                ELSE chainEvents
          /\ ret' = Ret("createEvent",
                        IF reason = "ok" THEN Len(chainEvents) + 1 ELSE 0,
                        sender, NULL, NULL, reason)
    /\ UNCHANGED <<backend, marketVars, now, nextToken, sqlVars, mongoVars, issued,
                   validCount, superseded, raceVars, chainTickets, tokenOwner>>

\* part_001:116-122, 131  the nonReentrant modifier, the require statements
\* and the receiver check of _safeMint, in the order they are evaluated;
\* "ok" when none of them reverts.  entered is the state of the reentrancy
\* guard when the function is entered.
MintTicketsRevert(msgSender, entered, eventId, quantity, value) ==
    IF entered THEN RevertReentrant
    ELSE IF eventId \notin 1..Len(chainEvents) THEN RevertNoEvent
    ELSE IF ~chainEvents[eventId].isActive THEN RevertInactive
    ELSE IF ~(quantity > 0 /\ quantity <= 10) THEN RevertQuantity
    ELSE IF chainEvents[eventId].ticketsSold + quantity
               > chainEvents[eventId].maxTickets THEN RevertSoldOut
    ELSE IF value < chainEvents[eventId].ticketPrice * quantity
         THEN RevertPayment
    ELSE IF ~(chainEvents[eventId].eventDate > now) THEN RevertOccurred
    ELSE IF msgSender = ContractAddress THEN RevertReceiver
    ELSE "ok"

\* part_001:126-146  the tickets minted by one call
MintedTickets(msgSender, eventId, quantity) ==
    [i \in 1..quantity |->
        [eventId |-> eventId, originalBuyer |-> msgSender,
         purchasePrice |-> chainEvents[eventId].ticketPrice,
         isUsed |-> FALSE, purchaseTimestamp |-> now]]

\* part_001:111-152 as executed for msgSender; a revert leaves the state alone
MintTicketsCall(op, caller, msgSender, entered, eventId, quantity, value) ==
    LET reason == MintTicketsRevert(msgSender, entered, eventId, quantity, value)
    IN /\ IF reason = "ok"
          THEN /\ tokenOwner' = tokenOwner \o [i \in 1..quantity |-> msgSender]
               /\ chainTickets' =
                     chainTickets \o MintedTickets(msgSender, eventId, quantity)
               /\ chainEvents' =
                     [chainEvents EXCEPT ![eventId].ticketsSold = @ + quantity]
               /\ ticketCountForEvent' =
                     [ticketCountForEvent EXCEPT ![msgSender][eventId] =
                         @ + quantity]
          ELSE UNCHANGED <<tokenOwner, chainTickets, chainEvents,
                           ticketCountForEvent>>
       /\ ret' = [Ret(op, IF reason = "ok" THEN Len(tokenOwner) + 1 ELSE 0,
                      caller, NULL, NULL, reason)
                  EXCEPT !.args = <<eventId, quantity, value>>]

\* part_001:111-152  called by an account in a transaction of its own
mintTickets(sender, eventId, quantity, value) ==
    /\ backend = "chain"
    /\ Len(tokenOwner) + quantity <= MaxMints
    /\ MintTicketsCall("mintTickets", sender, sender, FALSE, eventId, quantity,
                       value)
    /\ UNCHANGED <<backend, transferVars, purchaseVars, antiVars, now, nextToken, sqlVars, mongoVars, issued,
                   validCount, superseded, raceVars>>

\* part_001:157-164  nonReentrant enters the guard, then this.mintTickets is
\* an external call of the contract to itself: inside it msg.sender is the
\* contract and the guard is already entered.
mintTicket(sender, eventId, value) ==
    /\ backend = "chain"
    /\ Len(tokenOwner) + 1 <= MaxMints
    /\ MintTicketsCall("mintTicket", sender, ContractAddress, TRUE, eventId, 1,
                       value)
    /\ UNCHANGED <<backend, transferVars, purchaseVars, antiVars, now, nextToken, sqlVars, mongoVars, issued,
                   validCount, superseded, raceVars>>

\* The isUsed test left out of useTicket.
UseTicketRevert_NoUsedCheck(msgSender, tokenId) ==
    IF tokenId \notin 1..Len(tokenOwner) THEN RevertNoTicket
    ELSE IF tokenOwner[tokenId] # msgSender THEN RevertNotOwner
    ELSE LET event == chainEvents[chainTickets[tokenId].eventId]
         IN IF ~event.isActive THEN RevertInactive
            ELSE IF ~(/\ now >= event.eventDate - OneHour
                      /\ now <= event.eventDate + SixHours) THEN RevertWindow
            ELSE "ok"

\* part_001:170-182  the require statements of useTicket in the order they
\* are evaluated; eventDate - 1 hours is checked uint256 arithmetic.
UseTicketRevert(msgSender, tokenId) ==
    IF tokenId \notin 1..Len(tokenOwner) THEN RevertNoTicket
    ELSE IF tokenOwner[tokenId] # msgSender THEN RevertNotOwner
    ELSE IF chainTickets[tokenId].isUsed THEN RevertAlreadyUsed
    ELSE LET event == chainEvents[chainTickets[tokenId].eventId]
         IN IF ~event.isActive THEN RevertInactive
            ELSE IF event.eventDate < OneHour THEN RevertUnderflow
            ELSE IF ~(/\ now >= event.eventDate - OneHour
                      /\ now <= event.eventDate + SixHours) THEN RevertWindow
            ELSE "ok"

\* part_001:169-186
useTicket(sender, tokenId) ==
    /\ backend = "chain"
    /\ LET reason == UseTicketRevert(sender, tokenId)
       IN /\ chainTickets' =
                IF reason = "ok"
                THEN [chainTickets EXCEPT ![tokenId].isUsed = TRUE]
                ELSE chainTickets
          /\ ret' = Ret("useTicket", tokenId, sender, NULL, NULL, reason)
    /\ UNCHANGED <<backend, marketVars, now, nextToken, sqlVars, mongoVars,
                   issued, validCount, superseded, raceVars, chainEvents,
                   tokenOwner>>

\* ERC721.getApproved: approve is never called, so no token has an approved
\* address.
getApproved(tokenId) == ZeroAddress

\* part_001:196-207  nonReentrant, the require statements and the checks of
\* _safeTransfer (the receiver must be able to hold the token), in order.
SafeTransferRevert(msgSender, from, to, tokenId, price, value) ==
    IF tokenId \notin 1..Len(tokenOwner) THEN RevertNoTicket
    ELSE IF tokenOwner[tokenId] # from THEN RevertNotOwner
    ELSE IF ~(from = msgSender \/ getApproved(tokenId) = msgSender)
         THEN RevertNotAuthorized
    ELSE IF chainTickets[tokenId].isUsed THEN RevertUsedTransfer
    ELSE IF ~(price <= chainEvents[chainTickets[tokenId].eventId].maxResalePrice)
         THEN RevertPriceCap
    ELSE IF ~(value >= price) THEN RevertPayment
    ELSE IF to = ContractAddress THEN RevertReceiver
    ELSE "ok"

\* part_001:191-226
safeTransferWithPriceLimit(sender, from, to, tokenId, price, value) ==
    /\ backend = "chain"
    /\ LET reason == SafeTransferRevert(sender, from, to, tokenId, price, value)
       IN /\ IF reason = "ok"
             THEN LET eventId == chainTickets[tokenId].eventId
                      less == [ticketCountForEvent EXCEPT
                                  ![from][eventId] = @ - 1]
                  IN /\ tokenOwner' = [tokenOwner EXCEPT ![tokenId] = to]
                     /\ ticketCountForEvent' =
                           [less EXCEPT ![to][eventId] = @ + 1]
             ELSE UNCHANGED <<tokenOwner, ticketCountForEvent>>
          /\ ret' = [Ret("safeTransferWithPriceLimit", tokenId, sender, NULL,
                         NULL, reason)
                     EXCEPT !.args = <<from, to, price, value>>]
    /\ UNCHANGED <<backend, transferVars, purchaseVars, antiVars, now,
                   nextToken, sqlVars, mongoVars, issued, validCount,
                   superseded, raceVars, chainEvents, chainTickets>>

\* ------------- FairPassTicket, anti-scalping contract (part_001:343-727)
\* The second contract of the file.  Event ids and token ids start at 0, so
\* the event with id e is antiEvents[e + 1]; block.timestamp is `now`.

ContractOwner == "deployer"
AntiEventDates == {3601}
AntiPrices == {0, 15}
Multipliers == {99, 110}
RoyaltyPercentages == {10}
TicketLimits == {1, 2}
SaleValues == {0, 16, 17}

RevertPaused == "Pausable: paused"
RevertNotContractOwner == "Ownable: caller is not the owner"
RevertPriceZero == "Price must be greater than 0"
RevertSupplyZero == "Max supply must be greater than 0"
RevertMultiplier == "Resale multiplier must be at least 100%"
RevertRoyalty == "Royalty cannot exceed 25%"
RevertTicketLimit == "Invalid tickets per user limit"
RevertQuantityZero == "Quantity must be greater than 0"
RevertUserLimit == "Exceeds maximum tickets per user"
RevertVerification == "User verification required"
RevertNotTheOwner == "Not the ticket owner"
RevertAfterEvent == "Cannot resell after event"
RevertResaleLimit == "Price exceeds maximum resale limit"
RevertSalePrice == "Invalid sale price"
RevertBuyerVerification == "Buyer verification required"
RevertBuyerLimit == "Buyer exceeds maximum tickets per user"

\* A mapping slot that was never written reads as the zero value.
ZeroEvent ==
    [eventDate |-> 0, originalPrice |-> 0, maxSupply |-> 0, currentSupply |-> 0,
     organizer |-> ZeroAddress, isActive |-> FALSE, maxResaleMultiplier |-> 0,
     royaltyPercentage |-> 0, maxTicketsPerUser |-> 0,
     requiresVerification |-> FALSE]

\* events[eventId]
EventData(eventId) ==
    IF eventId \in 0..(Len(antiEvents) - 1) THEN antiEvents[eventId + 1]
    ELSE ZeroEvent

\* _exists(tokenId)
AntiExists(tokenId) == tokenId \in 0..(Len(antiOwner) - 1)

\* ownerOf(tokenId) and tickets[tokenId] of a token that exists
AntiOwnerOf(tokenId) == antiOwner[tokenId + 1]
AntiTicket(tokenId) == antiTickets[tokenId + 1]

\* userTicketCount[eventId][user]
TicketCount(eventId, user) ==
    IF eventId \in DOMAIN userTicketCount THEN userTicketCount[eventId][user]
    ELSE 0

Anti_Mine ==
    /\ backend = "anti"
    /\ now + OneHour <= MaxAntiTime
    /\ now' = now + OneHour
    /\ ret' = Ret("mine", 0, "none", NULL, NULL, "none")
    /\ UNCHANGED <<backend, marketVars, nextToken, sqlVars, mongoVars, issued,
                   validCount, superseded, raceVars, chainVars>>

\* part_001:411-449
Anti_createEvent(sender, eventDate, originalPrice, maxSupply, maxResaleMultiplier, royaltyPercentage, maxTicketsPerUser, requiresVerification) ==
    /\ backend = "anti"
    /\ Len(antiEvents) < MaxAntiEvents
    /\ LET reason ==
             IF ~(eventDate > now) THEN RevertEventDate
             ELSE IF ~(originalPrice > 0) THEN RevertPriceZero
             ELSE IF ~(maxSupply > 0) THEN RevertSupplyZero
             ELSE IF ~(maxResaleMultiplier >= 100) THEN RevertMultiplier
             ELSE IF ~(royaltyPercentage <= 25) THEN RevertRoyalty
             ELSE IF ~(maxTicketsPerUser > 0 /\ maxTicketsPerUser <= 10)
                  THEN RevertTicketLimit
             ELSE "ok"
       IN /\ antiEvents' =
                IF reason = "ok"
                THEN Append(antiEvents,
                        [eventDate |-> eventDate,
                         originalPrice |-> originalPrice,
                         maxSupply |-> maxSupply, currentSupply |-> 0,
                         organizer |-> sender, isActive |-> TRUE,
                         maxResaleMultiplier |-> maxResaleMultiplier,
                         royaltyPercentage |-> royaltyPercentage,
                         maxTicketsPerUser |-> maxTicketsPerUser,
                         requiresVerification |-> requiresVerification])
                ELSE antiEvents
          /\ ret' = Ret("createEvent",
                        IF reason = "ok" THEN Len(antiEvents) ELSE NULL,
                        sender, NULL, NULL, reason)
    /\ UNCHANGED <<backend, platformFee, ticketCountForEvent, transferVars, purchaseVars,
                   antiTickets, antiOwner, userTicketCount, verifiedUsers,
                   paused, now, nextToken, sqlVars, mongoVars, issued,
                   validCount, superseded, raceVars, chainVars>>

\* The per-user limit left out of purchaseTickets.
PurchaseRevert_NoUserLimit(msgSender, eventId, quantity, value) ==
    LET eventData == EventData(eventId)
        totalPrice == eventData.originalPrice * quantity
        platformFeeAmount == (totalPrice * platformFee) \div 10000
    IN IF paused THEN RevertPaused
       ELSE IF ~eventData.isActive THEN RevertInactive
       ELSE IF ~(now < eventData.eventDate) THEN RevertOccurred
       ELSE IF ~(quantity > 0) THEN RevertQuantityZero
       ELSE IF ~(eventData.currentSupply + quantity <= eventData.maxSupply)
            THEN RevertSoldOut
       ELSE IF eventData.requiresVerification /\ ~verifiedUsers[msgSender]
            THEN RevertVerification
       ELSE IF ~(value >= totalPrice + platformFeeAmount) THEN RevertPayment
       ELSE "ok"

\* The supply test left out of purchaseTickets.
PurchaseRevert_NoSupplyCheck(msgSender, eventId, quantity, value) ==
    LET eventData == EventData(eventId)
        totalPrice == eventData.originalPrice * quantity
        platformFeeAmount == (totalPrice * platformFee) \div 10000
    IN IF paused THEN RevertPaused
       ELSE IF ~eventData.isActive THEN RevertInactive
       ELSE IF ~(now < eventData.eventDate) THEN RevertOccurred
       ELSE IF ~(quantity > 0) THEN RevertQuantityZero
       ELSE IF ~(TicketCount(eventId, msgSender) + quantity
                    <= eventData.maxTicketsPerUser) THEN RevertUserLimit
       ELSE IF eventData.requiresVerification /\ ~verifiedUsers[msgSender]
            THEN RevertVerification
       ELSE IF ~(value >= totalPrice + platformFeeAmount) THEN RevertPayment
       ELSE "ok"

\* part_001:463-491  the modifiers and require statements of purchaseTickets
\* in the order they are evaluated.
PurchaseRevert(msgSender, eventId, quantity, value) ==
    LET eventData == EventData(eventId)
        totalPrice == eventData.originalPrice * quantity
        platformFeeAmount == (totalPrice * platformFee) \div 10000
    IN IF paused THEN RevertPaused
       ELSE IF ~eventData.isActive THEN RevertInactive
       ELSE IF ~(now < eventData.eventDate) THEN RevertOccurred
       ELSE IF ~(quantity > 0) THEN RevertQuantityZero
       ELSE IF ~(TicketCount(eventId, msgSender) + quantity
                    <= eventData.maxTicketsPerUser) THEN RevertUserLimit
       ELSE IF ~(eventData.currentSupply + quantity <= eventData.maxSupply)
            THEN RevertSoldOut
       ELSE IF eventData.requiresVerification /\ ~verifiedUsers[msgSender]
            THEN RevertVerification
       ELSE IF ~(value >= totalPrice + platformFeeAmount) THEN RevertPayment
       ELSE "ok"

\* part_001:460-523
Anti_purchaseTickets(sender, eventId, quantity, value) ==
    /\ backend = "anti"
    /\ LET reason == PurchaseRevert(sender, eventId, quantity, value)
       IN /\ reason = "ok" => Len(antiOwner) + quantity <= MaxAntiMints
          /\ IF reason = "ok"
             THEN /\ antiTickets' = antiTickets \o
                        [i \in 1..quantity |->
                            [eventId |-> eventId,
                             originalPrice |-> EventData(eventId).originalPrice,
                             hasAttended |-> FALSE,
                             purchaseTimestamp |-> now,
                             originalBuyer |-> sender]]
                  /\ antiOwner' = antiOwner \o [i \in 1..quantity |-> sender]
                  /\ antiEvents' = [antiEvents EXCEPT
                        ![eventId + 1].currentSupply = @ + quantity]
                  /\ userTicketCount' = [userTicketCount EXCEPT
                        ![eventId][sender] = @ + quantity]
             ELSE UNCHANGED <<antiTickets, antiOwner, antiEvents,
                              userTicketCount>>
          /\ ret' = [Ret("purchaseTickets",
                         IF reason = "ok" THEN Len(antiOwner) ELSE NULL,
                         sender, NULL, NULL, reason)
                     EXCEPT !.args = <<eventId, quantity, value>>]
    /\ UNCHANGED <<backend, platformFee, ticketCountForEvent, transferVars, purchaseVars,
                   verifiedUsers, paused, now, nextToken, sqlVars, mongoVars,
                   issued, validCount, superseded, raceVars, chainVars>>

\* part_001:550  (ticket.originalPrice * maxResaleMultiplier) / 100
MaxResalePrice(tokenId) ==
    (AntiTicket(tokenId).originalPrice
        * EventData(AntiTicket(tokenId).eventId).maxResaleMultiplier) \div 100

\* part_001:555  (msg.value * eventData.royaltyPercentage) / 100
Royalty(value, royaltyPercentage) == (value * royaltyPercentage) \div 100

\* part_001:556  (msg.value * platformFee) / 10000
PlatformFeeAmount(value) == (value * platformFee) \div 10000

\* The platform fee left out of the seller's share.
SellerAmount_NoFee(value, royaltyPercentage) ==
    value - Royalty(value, royaltyPercentage)

\* part_001:557  msg.value - royalty - platformFeeAmount, as an integer: a
\* negative value is the underflow on which the uint256 subtraction reverts
SellerAmount(value, royaltyPercentage) ==
    value - Royalty(value, royaltyPercentage) - PlatformFeeAmount(value)

\* The price cap left out of resellTicket.
ResellRevert_NoCap(msgSender, tokenId, buyerAddress, value) ==
    IF paused THEN RevertPaused
    ELSE IF ~AntiExists(tokenId) THEN RevertNoTicket
    ELSE IF AntiOwnerOf(tokenId) # msgSender THEN RevertNotTheOwner
    ELSE LET eventId == AntiTicket(tokenId).eventId
             eventData == EventData(eventId)
         IN IF ~(now < eventData.eventDate) THEN RevertAfterEvent
            ELSE IF ~eventData.isActive THEN RevertInactive
            ELSE IF ~(value > 0) THEN RevertSalePrice
            ELSE IF SellerAmount(value, eventData.royaltyPercentage) < 0
                 THEN RevertUnderflow
            ELSE IF eventData.requiresVerification /\ ~verifiedUsers[buyerAddress]
                 THEN RevertBuyerVerification
            ELSE IF ~(TicketCount(eventId, buyerAddress)
                         < eventData.maxTicketsPerUser) THEN RevertBuyerLimit
            ELSE "ok"

\* part_001:537-566  the modifiers and require statements of resellTicket in
\* the order they are evaluated.
ResellRevert(msgSender, tokenId, buyerAddress, value) ==
    IF paused THEN RevertPaused
    ELSE IF ~AntiExists(tokenId) THEN RevertNoTicket
    ELSE IF AntiOwnerOf(tokenId) # msgSender THEN RevertNotTheOwner
    ELSE LET eventId == AntiTicket(tokenId).eventId
             eventData == EventData(eventId)
         IN IF ~(now < eventData.eventDate) THEN RevertAfterEvent
            ELSE IF ~eventData.isActive THEN RevertInactive
            ELSE IF ~(value <= MaxResalePrice(tokenId)) THEN RevertResaleLimit
            ELSE IF ~(value > 0) THEN RevertSalePrice
            ELSE IF SellerAmount(value, eventData.royaltyPercentage) < 0
                 THEN RevertUnderflow
            ELSE IF eventData.requiresVerification /\ ~verifiedUsers[buyerAddress]
                 THEN RevertBuyerVerification
            ELSE IF ~(TicketCount(eventId, buyerAddress)
                         < eventData.maxTicketsPerUser) THEN RevertBuyerLimit
            ELSE "ok"

\* part_001:534-581
resellTicket(sender, tokenId, buyerAddress, value) ==
    /\ backend = "anti"
    /\ LET reason == ResellRevert(sender, tokenId, buyerAddress, value)
       IN /\ IF reason = "ok"
             THEN LET eventId == AntiTicket(tokenId).eventId
                      less == [userTicketCount EXCEPT ![eventId][sender] = @ - 1]
                  IN /\ antiOwner' =
                           [antiOwner EXCEPT ![tokenId + 1] = buyerAddress]
                     /\ userTicketCount' =
                           [less EXCEPT ![eventId][buyerAddress] = @ + 1]
             ELSE UNCHANGED <<antiOwner, userTicketCount>>
          /\ ret' = [Ret("resellTicket", tokenId, sender, NULL, NULL, reason)
                     EXCEPT !.args =
                        IF reason = "ok"
                        THEN LET rp == EventData(AntiTicket(tokenId).eventId)
                                          .royaltyPercentage
                             IN <<buyerAddress, value, Royalty(value, rp),
                                  PlatformFeeAmount(value),
                                  SellerAmount(value, rp)>>
                        ELSE <<buyerAddress, value>>]
    /\ UNCHANGED <<backend, platformFee, ticketCountForEvent, transferVars, purchaseVars,
                   antiEvents, antiTickets, verifiedUsers, paused, now,
                   nextToken, sqlVars, mongoVars, issued, validCount,
                   superseded, raceVars, chainVars>>

\* part_001:616-619
setUserVerification(sender, user, verified) ==
    /\ backend = "anti"
    /\ LET reason == IF sender # ContractOwner THEN RevertNotContractOwner
                     ELSE "ok"
       IN /\ verifiedUsers' =
                IF reason = "ok" THEN [verifiedUsers EXCEPT ![user] = verified]
                ELSE verifiedUsers
          /\ ret' = Ret("setUserVerification", NULL, sender, NULL, NULL, reason)
    /\ UNCHANGED <<backend, platformFee, ticketCountForEvent, transferVars, purchaseVars,
                   antiEvents, antiTickets, antiOwner, userTicketCount, paused,
                   now, nextToken, sqlVars, mongoVars, issued, validCount,
                   superseded, raceVars, chainVars>>

\* part_001:678-684  pause and unpause (Pausable: _pause requires the
\* contract not to be paused, _unpause requires it to be paused)
setPaused(sender, value) ==
    /\ backend = "anti"
    /\ LET reason == IF sender # ContractOwner THEN RevertNotContractOwner
                     ELSE IF paused = value
                          THEN IF value THEN RevertPaused
                               ELSE "Pausable: not paused"
                     ELSE "ok"
       IN /\ paused' = IF reason = "ok" THEN value ELSE paused
          /\ ret' = Ret(IF value THEN "pause" ELSE "unpause", NULL, sender,
                        NULL, NULL, reason)
    /\ UNCHANGED <<backend, platformFee, ticketCountForEvent, transferVars, purchaseVars,
                   antiEvents, antiTickets, antiOwner, userTicketCount,
                   verifiedUsers, now, nextToken, sqlVars, mongoVars, issued,
                   validCount, superseded, raceVars, chainVars>>

\* part_001:686-689
setPlatformFee(sender, newFee) ==
    /\ backend = "anti"
    /\ LET reason == IF sender # ContractOwner THEN RevertNotContractOwner
                     ELSE IF ~(newFee <= MaxPlatformFee)
                          THEN "Platform fee cannot exceed 5%"
                     ELSE "ok"
       IN /\ platformFee' = IF reason = "ok" THEN newFee ELSE platformFee
          /\ ret' = Ret("setPlatformFee", NULL, sender, NULL, NULL, reason)
    /\ UNCHANGED <<backend, ticketCountForEvent, transferVars, purchaseVars,
                   antiEvents, antiTickets, antiOwner, userTicketCount,
                   verifiedUsers, paused, now, nextToken, sqlVars, mongoVars,
                   issued, validCount, superseded, raceVars, chainVars>>

\* part_001:695-699
deactivateEvent(sender, eventId) ==
    /\ backend = "anti"
    /\ LET reason == IF ~(sender = EventData(eventId).organizer
                          \/ sender = ContractOwner)
                     THEN RevertNotAuthorized
                     ELSE "ok"
       IN /\ antiEvents' =
                IF reason = "ok" /\ eventId \in 0..(Len(antiEvents) - 1)
                THEN [antiEvents EXCEPT ![eventId + 1].isActive = FALSE]
                ELSE antiEvents
          /\ ret' = Ret("deactivateEvent", eventId, sender, NULL, NULL, reason)
    /\ UNCHANGED <<backend, platformFee, ticketCountForEvent, transferVars, purchaseVars,
                   antiTickets, antiOwner, userTicketCount, verifiedUsers,
                   paused, now, nextToken, sqlVars, mongoVars, issued,
                   validCount, superseded, raceVars, chainVars>>

\* The hasAttended test left out of markAttendance.
MarkAttendanceRevert_NoAttendedCheck(msgSender, tokenId) ==
    IF ~AntiExists(tokenId) THEN RevertNoTicket
    ELSE LET eventData == EventData(AntiTicket(tokenId).eventId)
         IN IF ~(msgSender = eventData.organizer \/ msgSender = ContractOwner)
            THEN RevertNotAuthorized
            ELSE IF eventData.eventDate < OneHour THEN RevertUnderflow
            ELSE IF ~(now >= eventData.eventDate - OneHour)
                 THEN "Too early to check in"
            ELSE IF ~(now <= eventData.eventDate + OneDay)
                 THEN "Event check-in period ended"
            ELSE "ok"

\* part_001:592-600  the requires of markAttendance, in order (the
\* subtraction eventDate - 3600 is checked arithmetic on uint256)
MarkAttendanceRevert(msgSender, tokenId) ==
    IF ~AntiExists(tokenId) THEN RevertNoTicket
    ELSE LET eventData == EventData(AntiTicket(tokenId).eventId)
         IN IF ~(msgSender = eventData.organizer \/ msgSender = ContractOwner)
            THEN RevertNotAuthorized
            ELSE IF AntiTicket(tokenId).hasAttended
                 THEN "Attendance already marked"
            ELSE IF eventData.eventDate < OneHour THEN RevertUnderflow
            ELSE IF ~(now >= eventData.eventDate - OneHour)
                 THEN "Too early to check in"
            ELSE IF ~(now <= eventData.eventDate + OneDay)
                 THEN "Event check-in period ended"
            ELSE "ok"

\* part_001:591-605
markAttendance(sender, tokenId) ==
    /\ backend = "anti"
    /\ LET reason == MarkAttendanceRevert(sender, tokenId)
       IN /\ antiTickets' =
                IF reason = "ok"
                THEN [antiTickets EXCEPT ![tokenId + 1].hasAttended = TRUE]
                ELSE antiTickets
          /\ ret' = Ret("markAttendance", tokenId, sender, NULL, NULL, reason)
    /\ UNCHANGED <<backend, platformFee, ticketCountForEvent, transferVars, purchaseVars,
                   antiEvents, antiOwner, userTicketCount, verifiedUsers,
                   paused, now, nextToken, sqlVars, mongoVars, issued,
                   validCount, superseded, raceVars, chainVars>>

\* A block mined d seconds after the last one.
Attend_Mine(d) ==
    /\ backend = "anti"
    /\ now + d <= MaxAttendTime
    /\ now' = now + d
    /\ ret' = Ret("mine", 0, "none", NULL, NULL, "none")
    /\ UNCHANGED <<backend, marketVars, nextToken, sqlVars, mongoVars, issued,
                   validCount, superseded, raceVars, chainVars>>

\* ----------------------------------------------- fraud monitoring clock
FraudTick(d) ==
    /\ now + d <= MaxFraudTime
    /\ now' = now + d
    /\ ret' = Ret("tick", 0, "none", NULL, NULL, "none")
    /\ UNCHANGED <<backend, marketVars, nextToken, sqlVars, mongoVars, issued, validCount,
                   superseded, raceVars, chainVars>>

\* ------------------------------------------------------------------- Next
IssuedTokens == (1..(nextToken - 1)) \cup {GarbageToken}

\* The audit log is capped: FairPassDB writes a row only for a token that
\* resolves to a ticket.
LogHasRoom(verificationToken, cap) ==
    \/ Len(qr_verifications) < cap
    \/ FindTicketByToken(verificationToken) = 0

\* The collection tickets is capped.
RequestsHaveRoom(cap) == Len(transfer_requests) < cap

TicketsHaveRoom(quantity, cap) == Len(mongoTickets) + quantity <= cap

Next ==
    \/ \E d \in TickSteps : Tick(d)
    \/ \E u \in Users : createTicket(u)
    \/ \E t \in 1..MaxTickets, u \in Users : generateSecureQRData(t, u)
    \/ \E tok \in IssuedTokens : LogHasRoom(tok, MaxScans) /\ verifyQRCode(tok)
    \/ \E t \in 1..MaxTickets, u \in Users, v \in Users :
          RequestsHaveRoom(MaxTransfers) /\ createTransferRequest(t, u, v)
    \/ \E x \in 1..MaxTransfers, u \in Users : confirmTransfer(x, u)
    \/ \E u \in Users : JSON_createTicket(u)
    \/ \E t \in 1..MaxTickets, u \in Users : JSON_generateSecureQRData(t, u)
    \/ \E tok \in IssuedTokens :
          Len(qr_verifications) < MaxScans /\ JSON_verifyQRCode(tok)
    \/ \E t \in 1..MaxTickets, u \in Users, v \in Users :
          JSON_createTransferRequest(t, u, v)
    \/ \E x \in 1..MaxTransfers, u \in Users : JSON_confirmTransfer(x, u)
    \/ \E u \in Users, n \in 1..2 :
          TicketsHaveRoom(n, MaxTickets) /\ purchaseTickets(u, n)
    \/ \E t \in 1..MaxTickets, u \in Users, m \in BOOLEAN, loc \in Locations :
          generateSecureQR(t, u, m, loc)
    \/ \E tok \in IssuedTokens : Mongo_verifyQRCode(tok)
    \/ ttlMonitor

Spec == Init /\ [][Next]_vars

\* Verification under a clock that spans the 5-minute fraud window.
FraudInit == Init /\ backend \in {"sqlite", "json"}

FraudNext ==
    \/ \E d \in FraudTickSteps : FraudTick(d)
    \/ \E u \in Users : createTicket(u)
    \/ \E tok \in IssuedTokens :
          LogHasRoom(tok, MaxFraudScans) /\ verifyQRCode(tok)
    \/ \E u \in Users : JSON_createTicket(u)
    \/ \E tok \in IssuedTokens :
          Len(qr_verifications) < MaxFraudScans /\ JSON_verifyQRCode(tok)

FraudSpec == FraudInit /\ [][FraudNext]_vars

\* Two scanners calling FairPassMongoDB.verifyQRCode at the same time.
RaceInit == Init /\ backend = "mongo"

RaceNext ==
    \/ \E u \in Users :
          TicketsHaveRoom(1, MaxTickets) /\ purchaseTickets(u, 1)
    \/ \E t \in 1..MaxTickets, u \in Users : generateSecureQR(t, u, FALSE, NULL)
    \/ \E s \in Scanners, tok \in IssuedTokens : verifyQRCode_findQrRecord(s, tok)
    \/ \E s \in Scanners : verifyQRCode_logFraudAttempt(s)
    \/ \E s \in Scanners : verifyQRCode_findTicket(s)
    \/ \E s \in Scanners : verifyQRCode_markQrUsed(s)
    \/ \E s \in Scanners : verifyQRCode_markTicketUsed(s)

RaceSpec == RaceInit /\ [][RaceNext]_vars

\* mongodb.js:947-958, 1025-1033  the call is made and the findOne on
\* qrverifications rejects: the catch block returns result 'error'.
verifyQRCode_findQrRecordFails(s, verificationToken) ==
    /\ backend = "mongo"
    /\ calls[s].pc \in {"idle", "done"}
    /\ calls' = [calls EXCEPT ![s] =
          [pc |-> "done", token |-> verificationToken, q |-> 0,
           result |-> "error"]]
    /\ ret' = Ret("verifyQRCode", 0, s, verificationToken, NULL, "error")
    /\ UNCHANGED <<backend, marketVars, now, nextToken, sqlVars, mongoVars, issued,
                   validCount, superseded, chainVars>>

\* mongodb.js:972-1008, 1025-1033  the awaited operation the call is about
\* to run (findOne on tickets, updateOne on qrverifications, updateOne on
\* tickets) rejects: it changes nothing, and the catch block returns result
\* 'error'.  What the earlier operations of the call wrote stays written:
\* the method uses no session and no transaction.  logFraudAttempt is not
\* among them: it catches its own errors (mongodb.js:1037-1054).
verifyQRCode_catch(s) ==
    /\ backend = "mongo"
    /\ calls[s].pc \in {"findTicket", "markQrUsed", "markTicketUsed"}
    /\ calls' = [calls EXCEPT ![s].pc = "done", ![s].result = "error"]
    /\ ret' = Ret("verifyQRCode", 0, s, calls[s].token, NULL, "error")
    /\ UNCHANGED <<backend, marketVars, now, nextToken, sqlVars, mongoVars, issued,
                   validCount, superseded, chainVars>>

FailNext ==
    \/ RaceNext
    \/ \E s \in Scanners, tok \in IssuedTokens :
          verifyQRCode_findQrRecordFails(s, tok)
    \/ \E s \in Scanners : verifyQRCode_catch(s)

FailSpec == RaceInit /\ [][FailNext]_vars

\* The FairPassTicket contract after deployment.
ChainInit ==
    /\ backend = "chain"
    /\ now = 1
    /\ nextToken = 1
    /\ tickets = << >>
    /\ qr_verifications = << >>
    /\ fraud_alerts = << >>
    /\ transfer_requests = << >>
    /\ tickets_sold = 0
    /\ mongoTickets = << >>
    /\ qrverifications = << >>
    /\ fraudalerts = << >>
    /\ availableTickets = SampleAvailableTickets
    /\ totalTicketsPurchased = [u \in Users |-> 0]
    /\ ret = Ret("init", 0, "none", NULL, NULL, "none")
    /\ issued = [i \in 1..MaxTickets |-> NoIssue]
    /\ validCount = [i \in 1..MaxTickets |-> 0]
    /\ superseded = {}
    /\ calls = [s \in Scanners |-> NoCall]
    /\ chainEvents = << >>
    /\ chainTickets = << >>
    /\ tokenOwner = << >>
    /\ ticketCountForEvent = [u \in Users |-> [e \in 1..MaxEvents |-> 0]]
    /\ transfers = << >>
    /\ purchases = [u \in Users |-> NoPurchase]
    /\ antiEvents = << >>
    /\ antiTickets = << >>
    /\ antiOwner = << >>
    /\ userTicketCount = [e \in 0..(MaxAntiEvents - 1) |-> [u \in Users |-> 0]]
    /\ verifiedUsers = [u \in Users |-> FALSE]
    /\ paused = FALSE
    /\ platformFee = InitialPlatformFee

ChainNext ==
    \/ Mine
    \/ \E u \in Users, date \in EventDates, price \in Prices,
          n \in 1..MaxMints, cap \in Prices :
          createEvent(u, date, price, n, cap)
    \/ \E u \in Users, e \in 1..MaxEvents, n \in 0..2, v \in 0..2 :
          mintTickets(u, e, n, v)
    \/ \E u \in Users, e \in 1..MaxEvents, v \in 0..2 : mintTicket(u, e, v)

ChainSpec == ChainInit /\ [][ChainNext]_vars

\* One ticket of the FairPassTicket contract, used at the gate and resold.
GateNext ==
    \/ Mine
    \/ \E date \in EventDates, cap \in Prices :
          createEvent("alice", date, 1, 1, cap)
    \/ \E u \in Users : mintTickets(u, 1, 1, 1)
    \/ \E u \in Users, t \in 1..MaxMints : useTicket(u, t)
    \/ \E u \in Users, from \in Users, to \in Users \cup {ContractAddress},
          t \in 1..MaxMints, price \in ResalePrices :
          safeTransferWithPriceLimit(u, from, to, t, price, price)

GateSpec == ChainInit /\ [][GateNext]_vars

\* The anti-scalping FairPassTicket contract after deployment.
AntiInit ==
    /\ backend = "anti"
    /\ now = 1
    /\ nextToken = 1
    /\ tickets = << >>
    /\ qr_verifications = << >>
    /\ fraud_alerts = << >>
    /\ transfer_requests = << >>
    /\ tickets_sold = 0
    /\ mongoTickets = << >>
    /\ qrverifications = << >>
    /\ fraudalerts = << >>
    /\ availableTickets = SampleAvailableTickets
    /\ totalTicketsPurchased = [u \in Users |-> 0]
    /\ ret = Ret("init", 0, "none", NULL, NULL, "none")
    /\ issued = [i \in 1..MaxTickets |-> NoIssue]
    /\ validCount = [i \in 1..MaxTickets |-> 0]
    /\ superseded = {}
    /\ calls = [s \in Scanners |-> NoCall]
    /\ chainEvents = << >>
    /\ chainTickets = << >>
    /\ tokenOwner = << >>
    /\ ticketCountForEvent = [u \in Users |-> [e \in 1..MaxEvents |-> 0]]
    /\ transfers = << >>
    /\ purchases = [u \in Users |-> NoPurchase]
    /\ antiEvents = << >>
    /\ antiTickets = << >>
    /\ antiOwner = << >>
    /\ userTicketCount = [e \in 0..(MaxAntiEvents - 1) |-> [u \in Users |-> 0]]
    /\ verifiedUsers = [u \in Users |-> FALSE]
    /\ paused = FALSE
    /\ platformFee = InitialPlatformFee

AntiNext ==
    \/ Anti_Mine
    \/ \E price \in AntiPrices, mult \in Multipliers,
          royalty \in RoyaltyPercentages, limit \in TicketLimits,
          date \in AntiEventDates, verification \in BOOLEAN :
          Anti_createEvent("alice", date, price, MaxAntiMints, mult, royalty,
                           limit, verification)
    \/ \E u \in Users, e \in 0..MaxAntiEvents, n \in 0..2 :
          Anti_purchaseTickets(u, e, n, 15 * n)
    \/ \E u \in Users, t \in 0..(MaxAntiMints - 1), b \in Users,
          v \in SaleValues : resellTicket(u, t, b, v)
    \/ \E s \in {ContractOwner, "alice"}, u \in Users, v \in BOOLEAN :
          setUserVerification(s, u, v)
    \/ \E s \in {ContractOwner, "alice"} : setPaused(s, ~paused)
    \/ \E s \in {ContractOwner, "alice", "bob"} : deactivateEvent(s, 0)

AntiSpec == AntiInit /\ [][AntiNext]_vars

\* Check-in at the venue: an event two hours ahead, its tickets, and the
\* clock running through the check-in window and past it.
AttendEventDate == 7201

AttendNext ==
    \/ \E d \in {OneHour, OneDay} : Attend_Mine(d)
    \/ \E limit \in TicketLimits :
          Anti_createEvent("alice", AttendEventDate, 15, MaxAntiMints, 110, 10,
                           limit, FALSE)
    \/ \E u \in Users, n \in 1..2 : Anti_purchaseTickets(u, 0, n, 15 * n)
    \/ \E s \in {ContractOwner, "alice", "bob"}, t \in 0..MaxAntiMints :
          markAttendance(s, t)

AttendSpec == AntiInit /\ [][AttendNext]_vars

\* Resale payments: royalty percentages and platform fees at and around
\* their limits, sale values on both sides of the rounding steps.
PayRoyalties == {0, 10, 25, 26}
PayFees == {0, 1, 499, 500, 501}
PayValues == {1, 19, 20, 39, 99, 110}

PayNext ==
    \/ \E royalty \in PayRoyalties :
          Anti_createEvent("alice", 3601, 100, MaxAntiMints, 110, royalty, 2, FALSE)
    \/ \E u \in Users : Anti_purchaseTickets(u, 0, 1, 105)
    \/ \E u \in Users, t \in 0..(MaxAntiMints - 1), b \in Users,
          v \in PayValues : resellTicket(u, t, b, v)
    \/ \E s \in {ContractOwner, "alice"}, fee \in PayFees : setPlatformFee(s, fee)

PaySpec == AntiInit /\ [][PayNext]_vars

\* Transfers of a ticket between users, in FairPassDB and FairPassMongoDB.
TransferInit == Init /\ backend \in {"sqlite", "mongo"}

TransferNext ==
    \/ \E u \in Users : createTicket(u)
    \/ \E tok \in IssuedTokens : LogHasRoom(tok, MaxScans) /\ verifyQRCode(tok)
    \/ \E t \in 1..MaxTickets, u \in Users, v \in Users :
          RequestsHaveRoom(MaxTransfers) /\ createTransferRequest(t, u, v)
    \/ \E x \in 1..MaxTransfers, u \in Users : confirmTransfer(x, u)
    \/ \E u \in Users :
          TicketsHaveRoom(1, MaxTickets) /\ purchaseTickets(u, 1)
    \/ \E t \in 1..MaxTickets, u \in Users : generateSecureQR(t, u, FALSE, NULL)
    \/ \E tok \in IssuedTokens : Mongo_verifyQRCode(tok)
    \/ \E t \in 1..MaxTickets, u \in Users, v \in Users,
          type \in {"transfer", "sale"}, price \in TransferPrices :
          Mongo_createTransferRequest(t, u, v, type, price)
    \/ \E u \in Users, t \in 1..MaxTickets, price \in TransferPrices,
          isResale \in BOOLEAN : postTransfersCreate(u, t, "bob", price, isResale)
    \/ \E x \in 1..MaxMongoTransfers, u \in Users : approveTransfer(x, u)
    \/ \E x \in 1..MaxMongoTransfers, u \in Users,
          a \in {"accept", "reject", "cancel"} : postTransfersAction(u, x, a)

TransferSpec == TransferInit /\ [][TransferNext]_vars

\* Transfer requests of the SQLite server: several requests for one
\* ticket, confirmed in any order and at any time up to a day and a second
\* after the first moment (the clock moves by half a day, or by half a day
\* and a second).
Recipients == Users \cup {"carol"}
RequestTickSteps == {43200, 43201}

RequestInit == Init /\ backend = "sqlite"

RequestNext ==
    \/ \E d \in RequestTickSteps : RequestTick(d)
    \/ \E u \in Users : createTicket(u)
    \/ \E t \in 1..MaxTickets, u \in Users, v \in Recipients :
          RequestsHaveRoom(MaxRequests) /\ SQL_postTransfersCreate(t, u, v)
    \/ \E x \in 1..MaxRequests, u \in Recipients : confirmTransfer(x, u)

RequestSpec == RequestInit /\ [][RequestNext]_vars

\* Purchases and transfers against the per-user purchase limit.
LimitInit == Init /\ backend = "mongo"

LimitNext ==
    \/ \E u \in Users, n \in 1..3 :
          TicketsHaveRoom(n, MaxMongoTickets) /\ purchaseTickets(u, n)
    \/ \E t \in 1..MaxTickets, u \in Users, v \in Users :
          Mongo_createTransferRequest(t, u, v, "transfer", 0)
    \/ \E x \in 1..MaxMongoTransfers, u \in Users : approveTransfer(x, u)

LimitSpec == LimitInit /\ [][LimitNext]_vars

\* The tickets the purchaseTickets calls in progress have yet to insert.
RECURSIVE InFlight(_)
InFlight(S) ==
    IF S = {} THEN 0
    ELSE LET u == CHOOSE x \in S : TRUE
         IN (IF purchases[u].pc \in {"findUser", "countDocuments", "insertMany"}
             THEN purchases[u].quantity ELSE 0) + InFlight(S \ {u})

PurchasesHaveRoom(quantity, cap) ==
    Len(mongoTickets) + InFlight(Users) + quantity <= cap

\* Two buyers calling FairPassMongoDB.purchaseTickets at the same time for
\* the third sample event, of whose 150 tickets LastTickets are left (the
\* tickets sold before belong to other wallets and are left out).
SellOutInit ==
    /\ backend = "mongo"
    /\ now = 1
    /\ nextToken = 1
    /\ tickets = << >>
    /\ qr_verifications = << >>
    /\ fraud_alerts = << >>
    /\ transfer_requests = << >>
    /\ tickets_sold = 0
    /\ mongoTickets = << >>
    /\ qrverifications = << >>
    /\ fraudalerts = << >>
    /\ availableTickets = LastTickets
    /\ totalTicketsPurchased = [u \in Users |-> 0]
    /\ ret = Ret("init", 0, "none", NULL, NULL, "none")
    /\ issued = [i \in 1..MaxTickets |-> NoIssue]
    /\ validCount = [i \in 1..MaxTickets |-> 0]
    /\ superseded = {}
    /\ calls = [s \in Scanners |-> NoCall]
    /\ chainEvents = << >>
    /\ chainTickets = << >>
    /\ tokenOwner = << >>
    /\ ticketCountForEvent = [u \in Users |-> [e \in 1..MaxEvents |-> 0]]
    /\ transfers = << >>
    /\ purchases = [u \in Users |-> NoPurchase]
    /\ antiEvents = << >>
    /\ antiTickets = << >>
    /\ antiOwner = << >>
    /\ userTicketCount = [e \in 0..(MaxAntiEvents - 1) |-> [u \in Users |-> 0]]
    /\ verifiedUsers = [u \in Users |-> FALSE]
    /\ paused = FALSE
    /\ platformFee = InitialPlatformFee

SellOutNext ==
    \/ \E u \in Users, n \in 1..2 :
          PurchasesHaveRoom(n, MaxSellOutTickets) /\ purchaseTickets_findEvent(u, n)
    \/ \E u \in Users : purchaseTickets_findUser(u)
    \/ \E u \in Users : purchaseTickets_countDocuments(u)
    \/ \E u \in Users : purchaseTickets_insertMany(u)
    \/ \E u \in Users : purchaseTickets_updateEvent(u)
    \/ \E u \in Users : purchaseTickets_updateUser(u)

SellOutSpec == SellOutInit /\ [][SellOutNext]_vars

\* Resale under either contract.
ResaleInit == ChainInit \/ AntiInit

ResaleNext == GateNext \/ AntiNext

ResaleSpec == ResaleInit /\ [][ResaleNext]_vars

\* Sales of either contract up to and beyond an event's maximum.
SupplyNext ==
    \/ ChainNext
    \/ Anti_Mine
    \/ \E supply \in 1..MaxAntiMints :
          Anti_createEvent("alice", 3601, 15, supply, 110, 10, 2, FALSE)
    \/ \E u \in Users, n \in 1..2 : Anti_purchaseTickets(u, 0, n, 15 * n)

SupplySpec == ResaleInit /\ [][SupplyNext]_vars

\* ================================================================ claims

SqlTicketIds == 1..Len(tickets)
MongoTicketIds == 1..Len(mongoTickets)

\* A verification token of ticket t that is unexpired and unused at time `now`.
LiveTokens(t) ==
    {i \in 1..Len(qrverifications) :
        /\ qrverifications[i].ticketId = t
        /\ now < qrverifications[i].expiresAt
        /\ ~qrverifications[i].isUsed}

\* C1: in FairPassMongoDB every ticket has at most one verification token
\* that is at once unexpired (now < expiresAt) and unused (isUsed = false).
C1_AtMostOneLiveToken ==
    backend = "mongo" => \A t \in MongoTicketIds : Cardinality(LiveTokens(t)) <= 1

\* C2: in FairPassMongoDB verifyQRCode returns 'valid' for at most one call
\* per ticket.
C2_AtMostOneValid ==
    backend = "mongo" => \A t \in MongoTicketIds : validCount[t] <= 1

\* C3: in FairPassDB verifyQRCode returns 'valid' at most once per ticket,
\* and a ticket's is_used flag, once set, is never cleared.
C3_ValidOnceUsedForever ==
    /\ [](backend = "sqlite" => \A t \in SqlTicketIds : validCount[t] <= 1)
    /\ [][backend = "sqlite" =>
            \A t \in SqlTicketIds : tickets[t].is_used => tickets'[t].is_used]_vars

\* A second verification of the ticket was refused after its one 'valid'
\* scan, and a transfer of that ticket has been confirmed.
C3_Witness ==
    /\ backend = "sqlite"
    /\ ret.op = "verifyQRCode"
    /\ ret.result = "already_used"
    /\ validCount[ret.ticketId] = 1
    /\ tickets[ret.ticketId].is_used
    /\ \E x \in 1..Len(transfer_requests) :
          /\ transfer_requests[x].ticket_id = ret.ticketId
          /\ transfer_requests[x].status = "confirmed"

\* C4: in FairPassDB and JSONDatabase a generateSecureQRData call by the
\* owner made while the stored token is unexpired returns the stored token
\* and expiry and leaves the ticket record alone; two such calls in a row
\* therefore return the identical token and the identical expiry.
C4_IdempotentIssue ==
    [][\A t \in SqlTicketIds :
          ( /\ backend \in {"sqlite", "json"}
            /\ ret'.op = "generateSecureQRData"
            /\ ret'.ticketId = t
            /\ ret'.who = tickets[t].owner_address
            /\ now < DateOf(tickets[t].token_expires_at) )
          => /\ ret'.result = "ok"
             /\ ret'.token = tickets[t].current_verification_token
             /\ ret'.expiresAt = DateOf(tickets[t].token_expires_at)
             /\ tickets' = tickets
             /\ issued[t].live =>
                   /\ ret'.token = issued[t].verificationToken
                   /\ ret'.expiresAt = issued[t].expiresAt]_vars

\* Two issuances in a row were both made while the stored token was unexpired.
C4_Witness ==
    /\ backend \in {"sqlite", "json"}
    /\ ret.op = "generateSecureQRData"
    /\ ret.result = "ok"
    /\ issued[ret.ticketId].live
    /\ issued[ret.ticketId].repeat
    /\ issued[ret.ticketId].at > 1

UsedFlag(t) ==
    IF backend = "mongo" THEN mongoTickets[t].isUsed ELSE tickets[t].is_used

\* C5: in FairPassDB and FairPassMongoDB a token returned by issuance for an
\* unused ticket and presented to verifyQRCode before its expiry, with no
\* other operation on that ticket in between, yields 'valid' and sets the
\* ticket's used flag.
C5_RoundTrip ==
    [][\A t \in 1..MaxTickets :
          ( /\ backend \in {"sqlite", "mongo"}
            /\ ret'.op = "verifyQRCode"
            /\ issued[t] # NoIssue
            /\ issued[t].unused
            /\ ~issued[t].touched
            /\ ret'.token = issued[t].verificationToken
            /\ now < issued[t].expiresAt )
          => /\ ret'.result = "valid"
             /\ ret'.ticketId = t
             /\ UsedFlag(t)']_vars

\* A freshly issued token was verified 'valid' some time after its issuance.
C5_Witness ==
    /\ backend \in {"sqlite", "mongo"}
    /\ ret.op = "verifyQRCode"
    /\ ret.result = "valid"
    /\ issued[ret.ticketId].verificationToken = ret.token
    /\ issued[ret.ticketId].at < now
    /\ UsedFlag(ret.ticketId)

Resolves(token) ==
    \E i \in SqlTicketIds : tickets[i].current_verification_token = token

ResolvedTicket(token) ==
    CHOOSE i \in SqlTicketIds : tickets[i].current_verification_token = token

\* C6: FairPassDB.verifyQRCode returns one outcome by the precedence NotFound
\* ('invalid'), AlreadyUsed, Expired, Valid: a token of a used ticket yields
\* 'already_used' even past its expiry, and 'valid' is returned only when the
\* token resolves, the ticket is unused and the token is not past its expiry.
C6_Precedence ==
    [][(backend = "sqlite" /\ ret'.op = "verifyQRCode") =>
          LET token == ret'.token
          IN /\ ret'.result \in {"invalid", "already_used", "expired", "valid"}
             /\ ~Resolves(token) => ret'.result = "invalid"
             /\ Resolves(token) =>
                   LET ticket == tickets[ResolvedTicket(token)]
                       past == now > DateOf(ticket.token_expires_at)
                   IN /\ ticket.is_used => ret'.result = "already_used"
                      /\ (~ticket.is_used /\ past) => ret'.result = "expired"
                      /\ (~ticket.is_used /\ ~past) => ret'.result = "valid"]_vars

\* A used ticket's token, past its expiry, was classified 'already_used'.
C6_Witness ==
    /\ backend = "sqlite"
    /\ ret.op = "verifyQRCode"
    /\ ret.result = "already_used"
    /\ now > DateOf(tickets[ret.ticketId].token_expires_at)

QrRecordsOf(token) ==
    {i \in 1..Len(qrverifications) : qrverifications[i].verificationToken = token}

\* C7: FairPassMongoDB.verifyQRCode tells four outcomes apart: a token
\* already verified 'valid' yields AlreadyUsed on a second call, a token past
\* its expiry yields Expired, and a token never issued yields NotFound.
C7_FourOutcomes ==
    [][(backend = "mongo" /\ ret'.op = "verifyQRCode") =>
          LET recs == QrRecordsOf(ret'.token)
          IN /\ (\E i \in recs : qrverifications[i].isUsed)
                   => ret'.result = "already_used"
             /\ (\E i \in recs : /\ ~qrverifications[i].isUsed
                                 /\ now > qrverifications[i].expiresAt)
                   => ret'.result = "expired"
             /\ ret'.token = GarbageToken => ret'.result = "invalid"]_vars

\* C8: in FairPassDB a token returned by generateSecureQRData for an unused
\* ticket and presented 31 seconds or more after that call, with no other
\* operation on the ticket in between, is classified 'expired', never 'valid'.
C8_ExpiredAfter31s ==
    [][\A t \in SqlTicketIds :
          ( /\ backend = "sqlite"
            /\ ret'.op = "verifyQRCode"
            /\ issued[t] # NoIssue
            /\ issued[t].unused
            /\ ~issued[t].touched
            /\ ret'.token = issued[t].verificationToken
            /\ now >= issued[t].at + QRWindow + 1 )
          => ret'.result = "expired"]_vars

\* C9: FairPassDB.verifyQRCode called at a time exactly equal to the stored
\* token_expires_at of an unused ticket's current token returns 'expired'.
C9_ExpiryExclusive ==
    [][\A t \in SqlTicketIds :
          ( /\ backend = "sqlite"
            /\ ret'.op = "verifyQRCode"
            /\ ret'.token = tickets[t].current_verification_token
            /\ ~tickets[t].is_used
            /\ now = DateOf(tickets[t].token_expires_at) )
          => ret'.result = "expired"]_vars

IsIssuance(op) == op \in {"generateSecureQRData", "generateSecureQR"}

\* The error a backend raises for a requester who does not own the ticket.
UnauthorizedError ==
    IF backend = "mongo" THEN ErrNotOwner ELSE ErrUnauthorized

RequesterOwns(t, who) ==
    IF backend = "mongo"
    THEN t \in MongoTicketIds /\ mongoTickets[t].ownerAddress = who
    ELSE t \in SqlTicketIds /\ tickets[t].owner_address = who

\* C10: issuance requested by someone who is not the ticket's current owner,
\* or for a ticket that does not exist, fails with the backend's Unauthorized
\* error in FairPassDB.generateSecureQRData and FairPassMongoDB.generateSecureQR
\* and stores no token: token, expiry, owner and used flag stay as they were.
C10_UnauthorizedIssue ==
    [][( /\ backend \in {"sqlite", "mongo"}
         /\ IsIssuance(ret'.op)
         /\ ~RequesterOwns(ret'.ticketId, ret'.who) )
       => /\ ret'.result = UnauthorizedError
          /\ ret'.token = NULL
          /\ tickets' = tickets
          /\ mongoTickets' = mongoTickets
          /\ qrverifications' = qrverifications
          /\ nextToken' = nextToken]_vars

\* An existing ticket's issuance was refused to a requester who is not its
\* owner.
C10_Witness ==
    /\ backend \in {"sqlite", "mongo"}
    /\ IsIssuance(ret.op)
    /\ ret.result = UnauthorizedError
    /\ IF backend = "mongo"
       THEN ret.ticketId \in MongoTicketIds
            /\ mongoTickets[ret.ticketId].ownerAddress # ret.who
       ELSE ret.ticketId \in SqlTicketIds
            /\ tickets[ret.ticketId].owner_address # ret.who

\* C11: in FairPassDB and JSONDatabase generateSecureQRData requested by the
\* owner of a ticket whose used flag is true fails (AlreadyUsed) and stores
\* no token: the ticket record stays as it was and no token is returned.
C11_UsedTicketNoIssue ==
    [][\A t \in SqlTicketIds :
          ( /\ backend \in {"sqlite", "json"}
            /\ ret'.op = "generateSecureQRData"
            /\ ret'.ticketId = t
            /\ ret'.who = tickets[t].owner_address
            /\ tickets[t].is_used )
          => /\ ret'.result # "ok"
             /\ ret'.token = NULL
             /\ tickets' = tickets
             /\ nextToken' = nextToken]_vars

\* C12: in FairPassDB and JSONDatabase, once generateSecureQRData has stored
\* a new token on a ticket, every later verifyQRCode call with the token
\* value it replaced resolves to no ticket: it returns 'invalid', never
\* 'valid', and changes no ticket, from the instant of the replacement on.
C12_OldTokenNeverValid ==
    [][( /\ backend \in {"sqlite", "json"}
         /\ ret'.op = "verifyQRCode"
         /\ ret'.token \in superseded )
       => /\ ret'.result # "valid"
          /\ ret'.result = "invalid"
          /\ tickets' = tickets]_vars

\* The replaced token was refused at the very instant of the issuance that
\* replaced it.
C12_Witness ==
    /\ backend \in {"sqlite", "json"}
    /\ ret.op = "verifyQRCode"
    /\ ret.token \in superseded
    /\ ret.result = "invalid"
    /\ \E t \in SqlTicketIds :
          /\ issued[t].at = now
          /\ issued[t].verificationToken = tickets[t].current_verification_token
          /\ issued[t].verificationToken # ret.token

\* C13: every FairPassDB.verifyQRCode call, whatever its outcome, appends
\* exactly one record to qr_verifications.
C13_EveryCallLogged ==
    [][(backend = "sqlite" /\ ret'.op = "verifyQRCode")
       => /\ Len(qr_verifications') = Len(qr_verifications) + 1
          /\ qr_verifications'[Len(qr_verifications')].verification_token
                = ret'.token]_vars

\* The earlier attempts of a JSONDatabase log made with a token, and those of
\* them made less than 5 minutes before time t.
AttemptsWith(token) ==
    {i \in 1..Len(qr_verifications) :
        qr_verifications[i].verification_token = token}

AttemptsWithin(token, t) ==
    {i \in AttemptsWith(token) : t - qr_verifications[i].scan_timestamp < 300}

\* C14: in JSONDatabase a verifyQRCode call with a token that resolves to no
\* ticket raises a suspicious_activity alert when it is at least the 4th
\* attempt with that token within 5 minutes, and raises no alert when it is
\* at most the 3rd attempt with that token.
C14_FourthAttemptAlerts ==
    [][( /\ backend = "json"
         /\ ret'.op = "verifyQRCode"
         /\ ~Resolves(ret'.token) )
       => /\ Cardinality(AttemptsWithin(ret'.token, now)) >= 3
             => /\ Len(fraud_alerts') = Len(fraud_alerts) + 1
                /\ fraud_alerts'[Len(fraud_alerts')].alert_type
                      = "suspicious_activity"
          /\ Cardinality(AttemptsWith(ret'.token)) <= 2
             => fraud_alerts' = fraud_alerts]_vars

\* Four attempts with one unresolvable token, made at two different instants
\* less than 5 minutes apart, and the alert the fourth one raised.
C14_Witness ==
    /\ backend = "json"
    /\ ret.op = "verifyQRCode"
    /\ ret.result = "invalid"
    /\ Cardinality(AttemptsWithin(ret.token, now)) = 4
    /\ \E i \in AttemptsWithin(ret.token, now) :
          qr_verifications[i].scan_timestamp < now
    /\ Len(fraud_alerts) = 1
    /\ fraud_alerts[1].alert_type = "suspicious_activity"

\* C15: FairPassMongoDB.verifyQRCode creates a fraud alert only when more
\* than 3 attempts share the token: the first, second and third failed
\* verification of a token create none.
C15_AlertOnlyAboveThreshold ==
    [][( /\ backend = "mongo"
         /\ ret'.op = "verifyQRCode"
         /\ Len(fraudalerts') > Len(fraudalerts) )
       => Cardinality({i \in 1..Len(fraudalerts) :
             fraudalerts[i].verificationToken = ret'.token}) >= 3]_vars

\* C16: FairPassDB.verifyQRCode evaluates the fraud rule after every call
\* whose outcome is 'invalid', 'expired' or 'already_used' and never after
\* 'valid': such a call on a ticket's token that brings the number of
\* attempts with the token in the last 5 minutes above 3 raises an alert, and
\* a 'valid' call raises none.
C16_FraudCheckAfterFailures ==
    [][(backend = "sqlite" /\ ret'.op = "verifyQRCode")
       => /\ ( /\ ret'.result \in {"invalid", "expired", "already_used"}
               /\ ret'.ticketId # 0
               /\ Cardinality({i \in 1..Len(qr_verifications') :
                     /\ qr_verifications'[i].verification_token = ret'.token
                     /\ now - qr_verifications'[i].scan_timestamp < 300}) > 3 )
             => Len(fraud_alerts') = Len(fraud_alerts) + 1
          /\ ret'.result = "valid" => fraud_alerts' = fraud_alerts]_vars

\* C17: when two FairPassMongoDB.verifyQRCode calls for the same unexpired,
\* unused token run concurrently (both have read the token record before
\* either has finished), exactly one returns 'valid'.
C17_ExactlyOneValid ==
    \A a \in Scanners, b \in Scanners :
       ( /\ a # b
         /\ calls[a].pc = "done"
         /\ calls[b].pc = "done"
         /\ calls[a].token = calls[b].token
         /\ calls[a].q # 0
         /\ calls[a].q = calls[b].q )
       => /\ "valid" \in {calls[a].result, calls[b].result}
          /\ calls[a].result # calls[b].result

\* C18: the expiry window of FairPassMongoDB.generateSecureQR is a step
\* function of the distance that never grows with it: 180 s up to 100 m,
\* 60 s above 100 m up to 500 m, 30 s beyond, 30 s when venueMode is false or
\* no location is given, and no other length; the stored record expires at
\* the end of that window.
C18_WindowStepFunction ==
    [][( /\ backend = "mongo"
         /\ ret'.op = "generateSecureQR"
         /\ ret'.result = "ok" )
       => LET venueMode == ret'.args[1]
              distance == ret'.args[2]
              located == venueMode /\ distance # NULL
              window == ret'.expiresAt - now
          IN /\ window \in {30, 60, 180}
             /\ (located /\ distance <= 100) => window = 180
             /\ (located /\ distance > 100 /\ distance <= 500) => window = 60
             /\ (located /\ distance > 500) => window = 30
             /\ ~located => window = 30
             /\ qrverifications'[Len(qrverifications')].expiresAt = now + window
             /\ \A farther \in Locations \ {NULL} :
                   (located /\ farther >= distance)
                      => ExpirySeconds(TRUE, farther) <= window]_vars

\* A token was issued exactly 500 m from the venue, after an earlier one.
C18_Witness ==
    /\ backend = "mongo"
    /\ ret.op = "generateSecureQR"
    /\ ret.result = "ok"
    /\ ret.args = <<TRUE, 500>>
    /\ ret.expiresAt = now + 60
    /\ Len(qrverifications) = 2

\* C19: across all FairPassDB operations is_used goes from false to true
\* only in a verifyQRCode call that returns 'valid' for that ticket, and a
\* verifyQRCode call that returns 'invalid', 'already_used' or 'expired'
\* leaves every field of every ticket as it was.
C19_UsedOnlyByValidVerify ==
    [][backend = "sqlite" =>
          /\ \A t \in SqlTicketIds :
                (~tickets[t].is_used /\ tickets'[t].is_used)
                   => /\ ret'.op = "verifyQRCode"
                      /\ ret'.result = "valid"
                      /\ ret'.ticketId = t
          /\ ( /\ ret'.op = "verifyQRCode"
               /\ ret'.result \in {"invalid", "already_used", "expired"} )
             => tickets' = tickets]_vars

\* An expired token of an unused ticket was refused and the ticket is still
\* unused.
C19_Witness ==
    /\ backend = "sqlite"
    /\ ret.op = "verifyQRCode"
    /\ ret.result = "expired"
    /\ ~tickets[ret.ticketId].is_used
    /\ qr_verifications # << >>

\* The preconditions of mintTickets for one ticket hold for the payment sent.
MintAdmissible(eventId, value) ==
    /\ eventId \in 1..Len(chainEvents)
    /\ chainEvents[eventId].isActive
    /\ chainEvents[eventId].ticketsSold + 1 <= chainEvents[eventId].maxTickets
    /\ value >= chainEvents[eventId].ticketPrice
    /\ chainEvents[eventId].eventDate > now

\* C20: mintTicket(eventId, tokenURI, didHash) called with sufficient payment
\* for an active, future event that has tickets left succeeds, and afterwards
\* the caller is ownerOf the new token, is the ticket's originalBuyer, and
\* the ticket's isUsed is false.
C20_MintTicketOwner ==
    [][( /\ backend = "chain"
         /\ ret'.op = "mintTicket"
         /\ MintAdmissible(ret'.args[1], ret'.args[3]) )
       => /\ ret'.result = "ok"
          /\ tokenOwner'[ret'.ticketId] = ret'.who
          /\ chainTickets'[ret'.ticketId].originalBuyer = ret'.who
          /\ ~chainTickets'[ret'.ticketId].isUsed]_vars

\* The tokens of an event that an account owns in the FairPassTicket contract.
HeldTokens(account, eventId) ==
    {t \in 1..Len(tokenOwner) :
        tokenOwner[t] = account /\ chainTickets[t].eventId = eventId}

\* C21: a buyer who already holds a ticket for an event cannot mint another
\* ticket for that event: a mint call (mintTicket, or the mintTickets it
\* forwards to) by an account that owns a token of the event reverts and
\* mints nothing.
C21_NoSecondMint ==
    [][( /\ backend = "chain"
         /\ ret'.op \in {"mintTicket", "mintTickets"}
         /\ HeldTokens(ret'.who, ret'.args[1]) # {} )
       => /\ ret'.result # "ok"
          /\ tokenOwner' = tokenOwner]_vars

\* C24: useTicket succeeds only when the caller is the token's current
\* owner, the ticket's isUsed is false, the event is active and the block
\* time lies within [eventDate - 1 hour, eventDate + 6 hours]; after it
\* succeeds isUsed is true, stays true, and every later useTicket on the
\* token reverts.
C24_UseTicketOnce ==
    [][backend = "chain" =>
        /\ \A t \in 1..Len(chainTickets) :
              chainTickets[t].isUsed => chainTickets'[t].isUsed
        /\ (ret'.op = "useTicket" /\ ret'.result = "ok") =>
              /\ ret'.ticketId \in 1..Len(tokenOwner)
              /\ tokenOwner[ret'.ticketId] = ret'.who
              /\ ~chainTickets[ret'.ticketId].isUsed
              /\ LET event == chainEvents[chainTickets[ret'.ticketId].eventId]
                 IN /\ event.isActive
                    /\ now >= event.eventDate - 3600
                    /\ now <= event.eventDate + 21600
              /\ chainTickets'[ret'.ticketId].isUsed
        /\ ( /\ ret'.op = "useTicket"
             /\ ret'.ticketId \in 1..Len(chainTickets)
             /\ chainTickets[ret'.ticketId].isUsed )
           => /\ ret'.result # "ok"
              /\ chainTickets' = chainTickets]_vars

\* The owner's second useTicket on a used token has just reverted, at the
\* last instant of the event window.
C24_Witness ==
    /\ backend = "chain"
    /\ ret.op = "useTicket"
    /\ ret.result = RevertAlreadyUsed
    /\ tokenOwner[ret.ticketId] = ret.who
    /\ chainTickets[ret.ticketId].isUsed
    /\ now = chainEvents[chainTickets[ret.ticketId].eventId].eventDate + 21600

\* A safeTransferWithPriceLimit step on an existing token, and the price cap
\* of that token's event.
IsSafeTransfer ==
    /\ backend = "chain"
    /\ ret'.op = "safeTransferWithPriceLimit"
    /\ ret'.ticketId \in 1..Len(tokenOwner)

TransferCap == chainEvents[chainTickets[ret'.ticketId].eventId].maxResalePrice

\* A resellTicket step on an existing token.
IsResell ==
    /\ backend = "anti"
    /\ ret'.op = "resellTicket"
    /\ AntiExists(ret'.ticketId)

\* No resale above the cap: the call reverts and ownership is unchanged.
AboveCapReverts ==
    /\ (IsSafeTransfer /\ ret'.args[3] > TransferCap)
          => ret'.result # "ok" /\ tokenOwner' = tokenOwner
    /\ (IsResell /\ ret'.args[2] > MaxResalePrice(ret'.ticketId))
          => ret'.result # "ok" /\ antiOwner' = antiOwner

\* safeTransferWithPriceLimit at exactly the cap, paid in full, by the owner
\* of an unused ticket, to a buyer account: the buyer becomes the owner.
TransferAtCapSucceeds ==
    ( /\ IsSafeTransfer
      /\ ret'.args[3] = TransferCap
      /\ ret'.args[4] >= ret'.args[3]
      /\ ret'.who = ret'.args[1]
      /\ tokenOwner[ret'.ticketId] = ret'.who
      /\ ~chainTickets[ret'.ticketId].isUsed
      /\ ret'.args[2] \in Users )
    => /\ ret'.result = "ok"
       /\ tokenOwner'[ret'.ticketId] = ret'.args[2]

\* resellTicket at exactly the cap by the owner of an unused ticket.
ResellAtCap ==
    /\ IsResell
    /\ ret'.args[2] = MaxResalePrice(ret'.ticketId)
    /\ AntiOwnerOf(ret'.ticketId) = ret'.who
    /\ ~AntiTicket(ret'.ticketId).hasAttended

ResellSucceeded ==
    /\ ret'.result = "ok"
    /\ antiOwner'[ret'.ticketId + 1] = ret'.args[1]

\* What resellTicket requires besides ownership and the cap.
ResellAdmissible ==
    LET eventId == AntiTicket(ret'.ticketId).eventId
        eventData == EventData(eventId)
    IN /\ ~paused
       /\ now < eventData.eventDate
       /\ eventData.isActive
       /\ eventData.requiresVerification => verifiedUsers[ret'.args[1]]
       /\ userTicketCount[eventId][ret'.args[1]] < eventData.maxTicketsPerUser

WithinUserLimit ==
    \A e \in DOMAIN userTicketCount, u \in Users :
        userTicketCount[e][u] <= EventData(e).maxTicketsPerUser

\* A purchaseTickets or resellTicket step that would take a user's count for
\* an event above the event's maxTicketsPerUser.
WouldExceedUserLimit ==
    \/ /\ ret'.op = "purchaseTickets"
       /\ ret'.args[1] \in 0..(Len(antiEvents) - 1)
       /\ userTicketCount[ret'.args[1]][ret'.who] + ret'.args[2]
             > EventData(ret'.args[1]).maxTicketsPerUser
    \/ /\ ret'.op = "resellTicket"
       /\ AntiExists(ret'.ticketId)
       /\ ret'.args[1] # ret'.who
       /\ userTicketCount[AntiTicket(ret'.ticketId).eventId][ret'.args[1]] + 1
             > EventData(AntiTicket(ret'.ticketId).eventId).maxTicketsPerUser

\* C23: in the anti-scalping contract, after any sequence of purchaseTickets
\* and resellTicket calls userTicketCount[eventId][user] never exceeds the
\* event's maxTicketsPerUser, and a call that would exceed it reverts
\* without changing the contract's state.
C23_UserTicketLimit ==
    [][backend = "anti" =>
        /\ WithinUserLimit'
        /\ WouldExceedUserLimit =>
              /\ ret'.result # "ok"
              /\ UNCHANGED antiVars]_vars

\* A user holding as many tickets as the event allows has just been refused
\* one more.
C23_Witness ==
    /\ backend = "anti"
    /\ ret.op = "purchaseTickets"
    /\ ret.result = RevertUserLimit
    /\ ret.args[1] \in 0..(Len(antiEvents) - 1)
    /\ userTicketCount[ret.args[1]][ret.who]
          = EventData(ret.args[1]).maxTicketsPerUser
    /\ ret.args[2] = 1

\* The number of tickets of the event that a user owns in FairPassMongoDB.
OwnedTickets(coll, walletAddress) ==
    Cardinality({i \in 1..Len(coll) : coll[i].ownerAddress = walletAddress})

\* C25: FairPassMongoDB.purchaseTickets never succeeds when it would leave
\* the buyer owning more than the event's maxTicketsPerUser tickets of the
\* event, tickets received by transfer included, after any sequence of
\* purchaseTickets and approveTransfer calls.
C25_PurchaseWithinLimit ==
    [][( /\ backend = "mongo"
         /\ ret'.op = "purchaseTickets"
         /\ ret'.result = "ok" )
       => OwnedTickets(mongoTickets', ret'.who) <= SampleMaxTicketsPerUser]_vars

C29_UsedTicketKeepsOwner ==
    [][/\ (backend = "sqlite" /\ ret'.op = "confirmTransfer") =>
             \A i \in 1..Len(tickets) :
                 tickets[i].is_used =>
                     tickets'[i].owner_address = tickets[i].owner_address
       /\ (backend = "mongo" /\ ret'.op = "approveTransfer") =>
             \A i \in 1..Len(mongoTickets) :
                 mongoTickets[i].isUsed =>
                     mongoTickets'[i].ownerAddress = mongoTickets[i].ownerAddress
      ]_vars

\* The records of the audit log `log` with the token whose scan_timestamp
\* lies in the 5 minutes before t.
TrailingAttempts(log, token, t) ==
    {i \in 1..Len(log) :
        /\ log[i].verification_token = token
        /\ log[i].scan_timestamp > t - 300}

\* C27: in FairPassDB, for a token that resolves to a ticket, every
\* verifyQRCode call with outcome 'expired' that brings the number of
\* qr_verifications records with the token in the trailing 5 minutes above
\* 3 raises one suspicious_activity alert for the ticket (on the 4th, the
\* 5th and each later attempt), and none is raised while that number is 3
\* or less.
C27_AlertOnEveryAttemptAboveThreshold ==
    [][( /\ backend = "sqlite"
         /\ ret'.op = "verifyQRCode"
         /\ ret'.result = "expired" )
       => IF Cardinality(TrailingAttempts(qr_verifications', ret'.token, now)) > 3
          THEN /\ Len(fraud_alerts') = Len(fraud_alerts) + 1
               /\ SubSeq(fraud_alerts', 1, Len(fraud_alerts)) = fraud_alerts
               /\ fraud_alerts'[Len(fraud_alerts')] =
                     [ticket_id |-> ret'.ticketId,
                      alert_type |-> "suspicious_activity"]
          ELSE fraud_alerts' = fraud_alerts]_vars

\* The fifth 'expired' attempt with a token inside 5 minutes has raised the
\* second alert, the fourth having raised the first.
C27_Witness ==
    /\ backend = "sqlite"
    /\ ret.op = "verifyQRCode"
    /\ ret.result = "expired"
    /\ Cardinality(TrailingAttempts(qr_verifications, ret.token, now)) = 5
    /\ \A i \in 1..Len(qr_verifications) :
          qr_verifications[i].scan_result = "expired"
    /\ Len(fraud_alerts) = 2

\* C28: at every instant FairPassDB.generateSecureQRData and
\* FairPassDB.verifyQRCode agree on whether a ticket's stored token is live:
\* whenever issuance at the current time would treat the stored token as
\* expired and replace it, verification at the same time does not classify
\* that token 'valid', the instant now = token_expires_at included.
C28_IssuanceAndVerificationAgree ==
    backend = "sqlite" =>
        \A t \in SqlTicketIds :
            ( /\ tickets[t].current_verification_token # NULL
              /\ ~TokenStillValid(now, tickets[t]) )
            => Classify(now, tickets[t]) # "valid"

\* C30: under concurrent FairPassMongoDB.purchaseTickets calls for the same
\* event, interleaved at each await, the event's availableTickets never
\* becomes negative and the number of tickets created for the event never
\* exceeds the number that was available.
C30_NoOversell ==
    backend = "mongo" =>
        /\ availableTickets >= 0
        /\ Len(mongoTickets) <= LastTickets

\* C31: markAttendance sets hasAttended at most once per ticket: it succeeds
\* only when called by the event's organizer or the contract owner, on an
\* existing ticket with hasAttended false, at a time within
\* [eventDate - 3600 s, eventDate + 86400 s], and every later markAttendance
\* on that ticket reverts and changes nothing.
C31_AttendanceOnce ==
    [][ret'.op = "markAttendance" =>
        LET t == ret'.ticketId
        IN /\ ret'.result = "ok" =>
                /\ AntiExists(t)
                /\ ret'.who \in {EventData(AntiTicket(t).eventId).organizer,
                                  ContractOwner}
                /\ ~AntiTicket(t).hasAttended
                /\ now >= EventData(AntiTicket(t).eventId).eventDate - 3600
                /\ now <= EventData(AntiTicket(t).eventId).eventDate + 86400
                /\ antiTickets'[t + 1].hasAttended
           /\ (AntiExists(t) /\ AntiTicket(t).hasAttended) =>
                /\ ret'.result # "ok"
                /\ antiTickets' = antiTickets]_vars

\* A markAttendance by the organizer on a ticket already checked in has
\* reverted, inside the check-in window.
C31_Witness ==
    /\ backend = "anti"
    /\ ret.op = "markAttendance"
    /\ ret.result = "Attendance already marked"
    /\ ret.who = "alice"
    /\ AntiTicket(ret.ticketId).hasAttended
    /\ now >= AttendEventDate - 3600
    /\ now <= AttendEventDate + 86400

\* C32: in resellTicket, royalty + platformFeeAmount + sellerAmount equals
\* msg.value for every permitted royaltyPercentage (0..25) and platformFee
\* (0..500 basis points): the computation of sellerAmount never underflows
\* and a successful resale pays out exactly what was sent.
C32_ResalePaysOutExactly ==
    [][ret'.op = "resellTicket" =>
        /\ ret'.result # RevertUnderflow
        /\ ret'.result = "ok" =>
              LET value == ret'.args[2]
                  rp == EventData(AntiTicket(ret'.ticketId).eventId).royaltyPercentage
              IN /\ rp \in 0..25
                 /\ platformFee \in 0..500
                 /\ ret'.args[3] = (value * rp) \div 100
                 /\ ret'.args[4] = (value * platformFee) \div 10000
                 /\ ret'.args[5] >= 0
                 /\ ret'.args[3] + ret'.args[4] + ret'.args[5] = value]_vars

\* A resale at the highest royalty and the highest platform fee has paid a
\* royalty, a fee and the rest to the seller.
C32_Witness ==
    /\ backend = "anti"
    /\ ret.op = "resellTicket"
    /\ ret.result = "ok"
    /\ EventData(AntiTicket(ret.ticketId).eventId).royaltyPercentage = 25
    /\ platformFee = 500
    /\ ret.args[2] = 110
    /\ ret.args[3] = 27
    /\ ret.args[4] = 5
    /\ ret.args[5] = 78

\* The tickets of an event, in the list of tickets of either contract.
TicketsOfEvent(ticketList, eventId) ==
    Cardinality({i \in 1..Len(ticketList) : ticketList[i].eventId = eventId})

\* C33: for every event, after any sequence of purchases the number of
\* tickets minted never exceeds the event's maximum: ticketsSold <= maxTickets
\* under mintTickets and currentSupply <= maxSupply under purchaseTickets,
\* the counters being the numbers of tickets minted; a purchase that would
\* exceed the maximum reverts and mints nothing.
C33_SupplyNeverExceeded ==
    [][ /\ \A e \in 1..Len(chainEvents') :
              /\ chainEvents'[e].ticketsSold <= chainEvents'[e].maxTickets
              /\ chainEvents'[e].ticketsSold = TicketsOfEvent(chainTickets', e)
        /\ \A e \in 0..(Len(antiEvents') - 1) :
              /\ antiEvents'[e + 1].currentSupply <= antiEvents'[e + 1].maxSupply
              /\ antiEvents'[e + 1].currentSupply = TicketsOfEvent(antiTickets', e)
        /\ ( /\ ret'.op \in {"mintTickets", "mintTicket"}
             /\ ret'.args[1] \in 1..Len(chainEvents)
             /\ chainEvents[ret'.args[1]].ticketsSold + ret'.args[2]
                   > chainEvents[ret'.args[1]].maxTickets )
           => /\ ret'.result # "ok"
              /\ UNCHANGED <<chainEvents, chainTickets, tokenOwner>>
        /\ ( /\ ret'.op = "purchaseTickets"
             /\ backend = "anti"
             /\ ret'.args[1] \in 0..(Len(antiEvents) - 1)
             /\ EventData(ret'.args[1]).currentSupply + ret'.args[2]
                   > EventData(ret'.args[1]).maxSupply )
           => /\ ret'.result # "ok"
              /\ UNCHANGED <<antiEvents, antiTickets, antiOwner>> ]_vars

\* A purchase within the user's limit has reverted on an event that is
\* sold out, its counter standing at the maximum.
C33_Witness ==
    /\ backend = "anti"
    /\ ret.op = "purchaseTickets"
    /\ ret.result = RevertSoldOut
    /\ EventData(0).currentSupply = EventData(0).maxSupply
    /\ Len(antiTickets) = EventData(0).maxSupply

\* C34: a transfer created by the ticket owner through
\* POST /api/transfers/create can be completed: the creation by the owner of
\* an unused ticket succeeds and leaves a pending request; a following
\* POST /api/transfers/:transferId/accept by the user whose email equals the
\* request's toEmail, while the request is pending, succeeds, makes that
\* user the ticket's owner and leaves the request no longer pending; an
\* accept or reject of a request that is no longer pending is rejected.
C34_CreatedTransferCanBeCompleted ==
    [][ /\ ( /\ ret'.op = "POST /api/transfers/create"
             /\ MongoTicketExists(ret'.ticketId)
             /\ mongoTickets[ret'.ticketId].ownerAddress = ret'.who
             /\ ~mongoTickets[ret'.ticketId].isUsed )
           => /\ ret'.result = "ok"
              /\ Len(transfers') = Len(transfers) + 1
              /\ transfers'[Len(transfers')].status = "pending"
              /\ transfers'[Len(transfers')].toEmail = ret'.args[1]
        /\ ( /\ ret'.op = "POST /api/transfers/:transferId/accept"
             /\ ret'.args[1] \in 1..Len(transfers)
             /\ transfers[ret'.args[1]].status = "pending"
             /\ transfers[ret'.args[1]].toEmail = ret'.who )
           => /\ ret'.result = "ok"
              /\ mongoTickets'[transfers[ret'.args[1]].ticketId].ownerAddress
                    = ret'.who
              /\ transfers'[ret'.args[1]].status # "pending"
        /\ ( /\ ret'.op \in {"POST /api/transfers/:transferId/accept",
                              "POST /api/transfers/:transferId/reject"}
             /\ ret'.args[1] \in 1..Len(transfers)
             /\ transfers[ret'.args[1]].status # "pending" )
           => /\ ret'.result # "ok"
              /\ UNCHANGED <<transfers, mongoTickets>> ]_vars

\* C35: FairPassDB.confirmTransfer changes a ticket's owner only when the
\* ticket's current owner equals the transfer request's from_address: with
\* two pending requests created by the same owner for one ticket, confirming
\* the second after the first has been confirmed does not take the ticket
\* away from the first recipient.
C35_ConfirmOnlyFromCurrentOwner ==
    [][( /\ backend = "sqlite"
         /\ ret'.op = "confirmTransfer" )
       => \A t \in SqlTicketIds :
             tickets'[t].owner_address # tickets[t].owner_address
             => \E x \in 1..Len(transfer_requests) :
                   /\ transfer_requests[x].status = "pending"
                   /\ transfer_requests'[x].status = "confirmed"
                   /\ transfer_requests[x].ticket_id = t
                   /\ transfer_requests[x].from_address
                         = tickets[t].owner_address]_vars

\* C37: FairPassDB.confirmTransfer rejects a transfer request whose
\* expires_at has passed: a request is never confirmed after its expiry, and
\* an expired request never changes ticket ownership.
C37_ExpiredRequestRejected ==
    [][( /\ backend = "sqlite"
         /\ ret'.op = "confirmTransfer" )
       => \A x \in 1..Len(transfer_requests) :
             now > transfer_requests[x].expires_at
             => /\ transfer_requests'[x].status = transfer_requests[x].status
                /\ ( /\ ret'.who = transfer_requests[x].to_address
                      /\ transfer_requests[x].status = "pending" )
                   => /\ ret'.result = ErrTransfer
                      /\ tickets' = tickets]_vars

\* C36: in FairPassDB and in FairPassMongoDB, after a transfer confirmation
\* (confirmTransfer / approveTransfer) has moved a ticket to a new owner, no
\* verification token issued to the previous owner before the transfer is
\* accepted as 'valid' by verifyQRCode: in FairPassDB a token the
\* confirmation replaced is never valid, in FairPassMongoDB a valid token
\* was issued to the ticket's owner at the time of the scan.
C36_OldTokenDeadAfterTransfer ==
    [][( /\ ret'.op = "verifyQRCode"
         /\ ret'.result = "valid" )
       => /\ backend = "sqlite" => ret'.token \notin superseded
          /\ backend = "mongo" =>
                qrverifications[FindQrRecord(ret'.token, now)].ownerAddress
                   = mongoTickets[ret'.ticketId].ownerAddress]_vars

\* The verifyQRCode call of scanner s has run its updateOne on
\* qrverifications: the token record it found is marked used by this call.
CallMarkedToken(s) == calls[s].pc = "markTicketUsed"

\* C38: FairPassMongoDB.verifyQRCode is all-or-nothing under backend
\* failure: a call that returns result 'error' has modified neither the
\* token record nor the ticket, so once no call is in progress every token
\* record marked isUsed belongs to a ticket that is marked used.
C38_ErrorLeavesNoTrace ==
    [][( /\ ret'.op = "verifyQRCode"
         /\ ret'.result = "error"
         /\ calls'[ret'.who].pc = "done"
         /\ calls[ret'.who].pc # "done" )
       => /\ ~CallMarkedToken(ret'.who)
          /\ mongoTickets' = mongoTickets
          /\ qrverifications' = qrverifications
          /\ ( (\A s \in Scanners : calls'[s].pc \in {"idle", "done"})
               => \A q \in 1..Len(qrverifications') :
                     qrverifications'[q].isUsed
                     => mongoTickets'[qrverifications'[q].ticketId].isUsed )]_vars
====
